---- MODULE Spec2Model ----
(***************************************************************************)
(* A model of the uset crate: USet (src/src/core/uset.rs), a set of usize  *)
(* kept as a Vec<bool> indexed by key - offset, and UMap                   *)
(* (src/src/core/umap.rs), a map kept as a Vec<Option<T>> in the same way. *)
(*                                                                         *)
(* A collection is a record [vec, len, offset, min, max] as in the struct. *)
(* Vec indices are 0-based in the source; At(vec, i) reads source index i. *)
(* Option<T> is a sequence of length 0 (None) or 1 (Some(x)).              *)
(* A checked index outside the buffer panics, and so does a usize          *)
(* subtraction below zero (overflow checks on, as in the test build); the  *)
(* *_panics predicates say when an operation does, and the actions then    *)
(* set panicked and stop.                                                  *)
(*                                                                         *)
(* UMap::get, get_ref and get_ref_mut read with get_unchecked.  A read     *)
(* outside the buffer is undefined behaviour: the *_undefined predicates   *)
(* say when it happens, and the action then either faults or returns any   *)
(* Option<T>.  The same read inside put and shrink_to_fit is counted as a  *)
(* fault; no call sequence of the model reaches it.                        *)
(*                                                                         *)
(* Variables: kind (which collection the run is about), set and map (the   *)
(* collection), operand (the second set handed to union, difference,       *)
(* common_part, xor_set or is_subset_of; these leave `set` alone),         *)
(* res (the collection a call returns: also the map of join and submap     *)
(* and the set of query, which leave `map` alone), ret (the Option a       *)
(* call returns), last (the call just made and the arm it took, recorded   *)
(* only when history is set), arg (the slice handed to from_slice), it     *)
(* (the position of a USetIter) and panicked.                              *)
(***************************************************************************)
EXTENDS Integers, Sequences, FiniteSets, TLC

\* ---------------------------------------------------------------- bounds
\* largest key handed to an operation
MaxKey == 2
\* largest size handed to with_capacity / enlarge_capacity_to
MaxCapacity == 2
\* longest slice handed to from_slice / push_all
MaxSliceLen == 2
\* largest miscount of len a call may leave (len only exceeds the number of
\* present slots where the code miscounts, and then it can grow for ever)
MaxDrift == 2
\* largest end of a range handed to from_range
MaxRangeEnd == 9
\* number of distinct values a map may hold
NumValues == 2
\* longest slice of pairs or values handed to a UMap
MaxPairs == 1
\* largest key handed to an operation of a UMap
MaxMapKey == 1
\* largest key push and push_all may give out in the program of pushes
MaxPushKey == 3
\* longest slice of values handed to push_all in the program of pushes
MaxPushed == 2
\* largest key of a map handed to join, submap or query
MaxJoinKey == 2
\* longest slice of pairs such a map is built from
MaxJoinPairs == 2

\* ------------------------------------------------------- program constants
INITIAL_WORKING_CAPACITY == 8

INITIAL_CAPACITY == 8

Keys == 0..MaxKey

\* ------------------------------------------------------------ Option, Vec
None == <<>>
Some(x) == <<x>>

Falses(n) == [i \in 1..n |-> FALSE]

\* a checked index: 0-based i lies inside the buffer
InBuf(vec, i) == i >= 0 /\ i < Len(vec)

At(vec, i) == vec[i + 1]

SetAt(vec, i, x) == [vec EXCEPT ![i + 1] = x]

\* Vec::resize(n, fill)
Resize(vec, n, fill) == [i \in 1..n |-> IF i <= Len(vec) THEN vec[i] ELSE fill]

SetMin(S) == CHOOSE x \in S : \A y \in S : x <= y

SetMax(S) == CHOOSE x \in S : \A y \in S : x >= y

\* the keys whose slot holds true: the set's actual content
Members(s) == { s.offset + i - 1 : i \in { j \in 1..Len(s.vec) : s.vec[j] } }

\* ------------------------------------------------------------------ USet
USet_with_capacity(size) ==
  [vec |-> Falses(size), len |-> 0, offset |-> 0, min |-> 0, max |-> 0]

EMPTY_SET == USet_with_capacity(0)

USet_new == EMPTY_SET

USet_len(s) == s.len

\* a plausible slip: the set is taken for empty when it has no buffer
USet_is_empty_no_buffer(s) == Len(s.vec) = 0

USet_is_empty(s) == s.len = 0

USet_capacity(s) == Len(s.vec)

\* contains indexes vec[id - offset] once id is within [min, max]
USet_contains_panics(s, id) ==
  id >= s.min /\ id <= s.max /\ ~InBuf(s.vec, id - s.offset)

USet_contains(s, id) ==
  id >= s.min /\ id <= s.max /\ InBuf(s.vec, id - s.offset) /\ At(s.vec, id - s.offset)

USet_min(s) == IF USet_is_empty(s) THEN None ELSE Some(s.min)

USet_max(s) == IF USet_is_empty(s) THEN None ELSE Some(s.max)

\* --- push
push_zero_capacity(s, id) ==
  [vec |-> SetAt(Falses(INITIAL_WORKING_CAPACITY), 0, TRUE),
   len |-> s.len + 1, offset |-> id, min |-> id, max |-> id]

push_empty(s, id) ==
  [vec |-> SetAt(s.vec, 0, TRUE), len |-> 1, offset |-> id, min |-> id, max |-> id]

\* the buffer built when id < offset: max - id + 1 slots, slot 0 set, then
\* every i in min..=max copied to slot i - id
push_below_vec(s, id) ==
  [j \in 1..(s.max - id + 1) |->
     LET i == id + j - 1 IN
       IF i >= s.min /\ i <= s.max THEN USet_contains(s, i) ELSE j = 1]

push_below_offset(s, id) ==
  [vec |-> push_below_vec(s, id), len |-> s.len + 1, offset |-> id,
   min |-> id, max |-> s.max]

\* a plausible slip: the buffer is grown to twice the slots needed
push_beyond_capacity_doubled(s, id) ==
  [s EXCEPT !.vec = SetAt(Resize(s.vec, 2 * (id + 1 - s.offset), FALSE), id - s.offset, TRUE),
            !.len = s.len + 1,
            !.max = id]

push_beyond_capacity(s, id) ==
  [s EXCEPT !.vec = SetAt(Resize(s.vec, id + 1 - s.offset, FALSE), id - s.offset, TRUE),
            !.len = s.len + 1,
            !.max = id]

push_in_buffer(s, id) ==
  [s EXCEPT !.vec = SetAt(s.vec, id - s.offset, TRUE),
            !.len = s.len + 1,
            !.min = IF id < s.min THEN id ELSE s.min,
            !.max = IF id < s.min THEN s.max ELSE IF id > s.max THEN id ELSE s.max]

USet_push_branch(s, id) ==
  IF USet_capacity(s) = 0 THEN "zero_capacity"
  ELSE IF USet_is_empty(s) THEN "empty"
  ELSE IF id < s.offset THEN "below_offset"
  ELSE IF id >= s.offset + USet_capacity(s) THEN "beyond_capacity"
  ELSE IF ~At(s.vec, id - s.offset) THEN "in_buffer"
  ELSE "present"

USet_push_panics(s, id) ==
  /\ USet_push_branch(s, id) = "below_offset"
  /\ \/ s.max < id
     \/ \E i \in s.min..s.max : USet_contains_panics(s, i)

USet_push(s, id) ==
  LET b == USet_push_branch(s, id) IN
    IF b = "zero_capacity" THEN push_zero_capacity(s, id)
    ELSE IF b = "empty" THEN push_empty(s, id)
    ELSE IF b = "below_offset" THEN push_below_offset(s, id)
    ELSE IF b = "beyond_capacity" THEN push_beyond_capacity(s, id)
    ELSE IF b = "in_buffer" THEN push_in_buffer(s, id)
    ELSE s

\* --- remove
\* (lo..hi).find(|i| vec[i - offset]) as the set of hits; a hit outside the
\* buffer is a panic of the checked index
ScanHits(vec, offset, lo, hi) ==
  { i \in lo..(hi - 1) : ~InBuf(vec, i - offset) \/ At(vec, i - offset) }

\* a plausible slip: the next key is taken to be min + 1, without the scan
remove_new_min_no_scan(s, vec) == IF s.min + 1 <= s.max THEN s.min + 1 ELSE s.max

remove_new_min(s, vec) ==
  LET H == ScanHits(vec, s.offset, s.min, s.max) IN
    IF H = {} THEN s.max ELSE SetMin(H)

remove_new_max(s, vec) ==
  LET H == ScanHits(vec, s.offset, s.min, s.max) IN
    IF H = {} THEN s.min ELSE SetMax(H)

USet_remove_branch(s, id) ==
  IF id < s.min \/ id > s.max \/ ~USet_contains(s, id) THEN "absent"
  ELSE IF s.len = 1 THEN "last"
  ELSE IF id > s.min /\ id < s.max THEN "interior"
  ELSE IF id = s.min THEN "min"
  ELSE IF id = s.max THEN "max"
  ELSE "none"

USet_remove_panics(s, id) ==
  \/ USet_contains_panics(s, id)
  \/ /\ ~USet_contains_panics(s, id)
     /\ USet_remove_branch(s, id) \in {"min", "max"}
     /\ \E i \in ScanHits(SetAt(s.vec, id - s.offset, FALSE), s.offset, s.min, s.max) :
          ~InBuf(s.vec, i - s.offset)

remove_last(s, id) ==
  [vec |-> SetAt(s.vec, id - s.offset, FALSE), len |-> 0, offset |-> 0, min |-> 0,
   max |-> 0]

\* a plausible slip: the slot is cleared but len is not decremented
remove_interior_keeps_len(s, id) ==
  [s EXCEPT !.vec = SetAt(s.vec, id - s.offset, FALSE)]

remove_interior(s, id) ==
  [s EXCEPT !.vec = SetAt(s.vec, id - s.offset, FALSE), !.len = s.len - 1]

remove_min(s, id) ==
  [s EXCEPT !.vec = SetAt(s.vec, id - s.offset, FALSE),
            !.len = s.len - 1,
            !.min = remove_new_min(s, SetAt(s.vec, id - s.offset, FALSE))]

remove_max(s, id) ==
  [s EXCEPT !.vec = SetAt(s.vec, id - s.offset, FALSE),
            !.len = s.len - 1,
            !.max = remove_new_max(s, SetAt(s.vec, id - s.offset, FALSE))]

USet_remove(s, id) ==
  LET b == USet_remove_branch(s, id) IN
    IF b = "last" THEN remove_last(s, id)
    ELSE IF b = "interior" THEN remove_interior(s, id)
    ELSE IF b = "min" THEN remove_min(s, id)
    ELSE IF b = "max" THEN remove_max(s, id)
    ELSE s

\* --- iteration
\* USetIter::next: the item returned and the front cursor afterwards
RECURSIVE USetIter_next(_, _, _)
USetIter_next(s, index, rindex) ==
  IF index < Len(s.vec) - rindex THEN
    IF At(s.vec, index) THEN [ret |-> Some(index + s.offset), index |-> index + 1]
    ELSE USetIter_next(s, index + 1, rindex)
  ELSE [ret |-> None, index |-> index]

\* USetIter::next_back: the item returned and the back cursor afterwards
RECURSIVE USetIter_next_back(_, _, _)
USetIter_next_back(s, index, rindex) ==
  IF rindex < Len(s.vec) - index THEN
    IF At(s.vec, Len(s.vec) - rindex - 1)
    THEN [ret |-> Some(Len(s.vec) - rindex - 1 + s.offset), rindex |-> rindex + 1]
    ELSE USetIter_next_back(s, index, rindex + 1)
  ELSE [ret |-> None, rindex |-> rindex]

RECURSIVE at_index_loop(_, _, _)
at_index_loop(s, it, n) ==
  IF n = 0 THEN USetIter_next(s, it, 0).ret
  ELSE at_index_loop(s, USetIter_next(s, it, 0).index, n - 1)

USet_at_index(s, index) ==
  IF index >= s.len THEN None ELSE at_index_loop(s, 0, index)

\* pop removes what at_index returned
USet_pop_panics(s, index) ==
  LET d == USet_at_index(s, index) IN d # None /\ USet_remove_panics(s, d[1])

USet_pop(s, index) ==
  LET d == USet_at_index(s, index) IN IF d # None THEN USet_remove(s, d[1]) ELSE s

\* all keys the iterator yields from the front cursor `index` on
RECURSIVE USet_iter_collect(_, _)
USet_iter_collect(s, index) ==
  LET n == USetIter_next(s, index, 0) IN
    IF n.ret = None THEN <<>> ELSE <<n.ret[1]>> \o USet_iter_collect(s, n.index)

USet_iter(s) == USet_iter_collect(s, 0)

\* --- capacity
shrink_vec(s) == [j \in 1..(s.max - s.min + 1) |-> USet_contains(s, s.min + j - 1)]

USet_shrink_to_fit_panics(s) ==
  /\ ~USet_is_empty(s)
  /\ \/ USet_capacity(s) = 0
     \/ /\ USet_capacity(s) > 0
        /\ (~At(s.vec, 0) \/ ~At(s.vec, Len(s.vec) - 1))
        /\ \/ s.max < s.min
           \/ \E id \in s.min..s.max : USet_contains_panics(s, id)

USet_shrink_to_fit(s) ==
  IF ~USet_is_empty(s) /\ (~At(s.vec, 0) \/ ~At(s.vec, Len(s.vec) - 1)) THEN
    [s EXCEPT !.vec = shrink_vec(s), !.offset = s.min]
  ELSE IF USet_is_empty(s) /\ USet_capacity(s) > 0 THEN
    [s EXCEPT !.vec = <<>>]
  ELSE s

\* a plausible slip: the buffer is resized to the request even when smaller
USet_enlarge_capacity_to_always(s, new_capacity) ==
  [s EXCEPT !.vec = Resize(s.vec, new_capacity, FALSE)]

USet_enlarge_capacity_to_branch(s, new_capacity) ==
  IF new_capacity > USet_capacity(s) THEN "resize" ELSE "keep"

USet_enlarge_capacity_to(s, new_capacity) ==
  IF new_capacity > USet_capacity(s) THEN
    [s EXCEPT !.vec = Resize(s.vec, new_capacity, FALSE)]
  ELSE s

\* --- truncate, drain, clear
\* the 0-based indices of the slots that hold true, ascending
RECURSIVE TrueIndices(_, _)
TrueIndices(vec, from) ==
  IF from >= Len(vec) THEN <<>>
  ELSE IF At(vec, from) THEN <<from>> \o TrueIndices(vec, from + 1)
  ELSE TrueIndices(vec, from + 1)

\* the closure of truncate and drain: the first `len` true slots stay
truncate_kept(s, len) ==
  LET t == TrueIndices(s.vec, 0) IN SubSeq(t, 1, IF len < Len(t) THEN len ELSE Len(t))

truncate_dropped(s, len) ==
  LET t == TrueIndices(s.vec, 0) IN SubSeq(t, len + 1, Len(t))

\* a plausible slip: max is left where it was
truncate_new_max_unchanged(s, len) == s.max - s.offset

truncate_new_max(s, len) ==
  LET k == truncate_kept(s, len) IN IF k = <<>> THEN 0 ELSE k[Len(k)]

truncate_some(s, len) ==
  LET k == truncate_kept(s, len) IN
    [s EXCEPT !.vec = [j \in 1..Len(s.vec) |-> \E x \in 1..Len(k) : k[x] = j - 1],
              !.max = truncate_new_max(s, len) + s.offset,
              !.len = len]

truncate_all(s) ==
  [vec |-> Falses(Len(s.vec)), len |-> 0, offset |-> 0, min |-> 0, max |-> 0]

USet_truncate_branch(s, len) ==
  IF ~USet_is_empty(s) /\ len > 0 /\ len < s.len THEN "some"
  ELSE IF ~USet_is_empty(s) /\ len = 0 THEN "all"
  ELSE "none"

USet_truncate(s, len) ==
  IF ~USet_is_empty(s) /\ len > 0 /\ len < s.len THEN truncate_some(s, len)
  ELSE IF ~USet_is_empty(s) /\ len = 0 THEN truncate_all(s)
  ELSE s

USet_clear(s) == USet_truncate(s, 0)

RECURSIVE push_each(_, _)
push_each(s, ids) ==
  IF ids = <<>> THEN s ELSE push_each(USet_push(s, Head(ids)), Tail(ids))

RECURSIVE push_each_panics(_, _)
push_each_panics(s, ids) ==
  /\ ids # <<>>
  /\ \/ USet_push_panics(s, Head(ids))
     \/ /\ ~USet_push_panics(s, Head(ids))
        /\ push_each_panics(USet_push(s, Head(ids)), Tail(ids))

\* the set drain builds from the slots it drops
drain_dropped_ids(s, len) ==
  LET d == truncate_dropped(s, len) IN [x \in 1..Len(d) |-> d[x] + s.offset]

drain_new_set(s, len) ==
  USet_shrink_to_fit(push_each(USet_with_capacity(s.len - len), drain_dropped_ids(s, len)))

USet_drain_panics(s, len) ==
  /\ ~USet_is_empty(s) /\ len > 0 /\ len < s.len
  /\ \/ push_each_panics(USet_with_capacity(s.len - len), drain_dropped_ids(s, len))
     \/ /\ ~push_each_panics(USet_with_capacity(s.len - len), drain_dropped_ids(s, len))
        /\ USet_shrink_to_fit_panics(
             push_each(USet_with_capacity(s.len - len), drain_dropped_ids(s, len)))

\* what drain returns
USet_drain_ret(s, len) ==
  IF ~USet_is_empty(s) /\ len > 0 /\ len < s.len THEN drain_new_set(s, len)
  ELSE IF ~USet_is_empty(s) /\ len = 0 THEN s
  ELSE EMPTY_SET

\* what drain leaves
USet_drain(s, len) ==
  IF ~USet_is_empty(s) /\ len > 0 /\ len < s.len THEN truncate_some(s, len)
  ELSE IF ~USet_is_empty(s) /\ len = 0 THEN truncate_all(s)
  ELSE s

\* --- remove_all
RECURSIVE remove_each(_, _)
remove_each(s, ids) ==
  IF ids = <<>> THEN s ELSE remove_each(USet_remove(s, Head(ids)), Tail(ids))

RECURSIVE remove_each_panics(_, _)
remove_each_panics(s, ids) ==
  /\ ids # <<>>
  /\ \/ USet_remove_panics(s, Head(ids))
     \/ /\ ~USet_remove_panics(s, Head(ids))
        /\ remove_each_panics(USet_remove(s, Head(ids)), Tail(ids))

USet_remove_all_panics(s, other) == remove_each_panics(s, USet_iter(other))

USet_remove_all(s, other) == remove_each(s, USet_iter(other))

\* --- from_slice
\* itertools minmax: NoElements, OneElement or MinMax
SliceMin(slice) == SetMin({slice[i] : i \in 1..Len(slice)})

SliceMax(slice) == SetMax({slice[i] : i \in 1..Len(slice)})

Max2(a, b) == IF a >= b THEN a ELSE b

Min2(a, b) == IF a <= b THEN a ELSE b

make_from_slice_len(slice) == Len(slice)

USet_make_from_slice(slice) ==
  IF Len(slice) = 0 THEN [min |-> 0, max |-> 0, len |-> 0, vec |-> <<>>]
  ELSE IF Len(slice) = 1 THEN
    [min |-> slice[1], max |-> slice[1], len |-> 1, vec |-> <<TRUE>>]
  ELSE
    LET min == SliceMin(slice)
        max == SliceMax(slice)
        capacity == Max2(INITIAL_WORKING_CAPACITY, max + 1 - min)
    IN [min |-> min, max |-> max, len |-> make_from_slice_len(slice),
        vec |-> [j \in 1..capacity |-> \E x \in 1..Len(slice) : slice[x] - min = j - 1]]

\* a plausible slip: the buffer is taken to start at key 0
USet_from_slice_offset_zero(slice) ==
  IF slice = <<>> THEN EMPTY_SET
  ELSE LET m == USet_make_from_slice(slice) IN
    [vec |-> m.vec, len |-> m.len, offset |-> 0, min |-> m.min, max |-> m.max]

USet_from_slice(slice) ==
  IF slice = <<>> THEN EMPTY_SET
  ELSE LET m == USet_make_from_slice(slice) IN
    [vec |-> m.vec, len |-> m.len, offset |-> m.min, min |-> m.min, max |-> m.max]

\* --- from_range, from_fields
USet_from_range(start, end) ==
  IF end <= start THEN EMPTY_SET
  ELSE
    LET len == end - start
        capacity == Max2(INITIAL_WORKING_CAPACITY, len)
    IN [vec |-> [j \in 1..capacity |-> j <= len],
        len |-> len, offset |-> start, min |-> start, max |-> end]

\* find_map(..).unwrap() panics when no slot holds true
USet_from_fields_panics(vec, offset) ==
  vec # <<>> /\ \A j \in 1..Len(vec) : ~vec[j]

USet_from_fields(vec, offset) ==
  IF vec = <<>> THEN EMPTY_SET
  ELSE
    LET T == { j \in 1..Len(vec) : vec[j] } IN
      [vec |-> vec, len |-> Cardinality(T), offset |-> offset,
       min |-> SetMin(T) - 1 + offset, max |-> SetMax(T) - 1 + offset]

\* --- push_all
\* the in-place branch: every id of the slice lies within [min, max]
RECURSIVE push_all_in_place(_, _)
push_all_in_place(s, slice) ==
  IF slice = <<>> THEN s
  ELSE LET id == Head(slice) IN
    IF ~At(s.vec, id - s.offset) THEN
      push_all_in_place([s EXCEPT !.vec = SetAt(s.vec, id - s.offset, TRUE),
                                  !.len = s.len + 1], Tail(slice))
    ELSE push_all_in_place(s, Tail(slice))

\* Iterator::skip(n).take(m) on a sequence of items
SkipTake(items, n, m) ==
  SubSeq(items, n + 1, IF n + m < Len(items) THEN n + m ELSE Len(items))

\* the old keys the widening branch copies into the new buffer
push_all_copied(s) ==
  SkipTake(USet_iter(s), s.min - s.offset, s.max - s.min + 1)

\* the widening branch writes the slice into new_vec, counting new slots
RECURSIVE push_all_write(_, _, _, _)
push_all_write(new_vec, len, new_min, slice) ==
  IF slice = <<>> THEN [vec |-> new_vec, len |-> len]
  ELSE LET id == Head(slice) IN
    IF ~At(new_vec, id - new_min) THEN
      push_all_write(SetAt(new_vec, id - new_min, TRUE), len + 1, new_min, Tail(slice))
    ELSE push_all_write(new_vec, len, new_min, Tail(slice))

push_all_widen(s, slice) ==
  LET new_min == Min2(s.min, SliceMin(slice))
      new_max == Max2(s.max, SliceMax(slice))
      c == push_all_copied(s)
      copied == [j \in 1..(new_max - new_min + 1) |->
                   \E x \in 1..Len(c) : c[x] - new_min = j - 1]
      w == push_all_write(copied, s.len, new_min, slice)
  IN [vec |-> w.vec, len |-> w.len, offset |-> new_min, min |-> new_min, max |-> new_max]

USet_push_all_branch(s, slice) ==
  IF slice = <<>> THEN "empty_slice"
  ELSE IF USet_is_empty(s) THEN "empty_self"
  ELSE IF SliceMin(slice) >= s.min /\ SliceMax(slice) <= s.max THEN "in_place"
  ELSE "widen"

USet_push_all_panics(s, slice) ==
  /\ slice # <<>>
  /\ ~USet_is_empty(s)
  /\ IF SliceMin(slice) >= s.min /\ SliceMax(slice) <= s.max
     THEN \E x \in 1..Len(slice) : ~InBuf(s.vec, slice[x] - s.offset)
     ELSE \/ s.min < s.offset
          \/ s.max < s.min
          \/ \E x \in 1..Len(push_all_copied(s)) :
               LET id == push_all_copied(s)[x] IN
                 id < Min2(s.min, SliceMin(slice)) \/ id > Max2(s.max, SliceMax(slice))

USet_push_all(s, slice) ==
  IF slice = <<>> THEN s
  ELSE IF USet_is_empty(s) THEN
    LET m == USet_make_from_slice(slice) IN
      [vec |-> m.vec, len |-> m.len, offset |-> m.min, min |-> m.min, max |-> m.max]
  ELSE IF SliceMin(slice) >= s.min /\ SliceMax(slice) <= s.max THEN
    push_all_in_place(s, slice)
  ELSE push_all_widen(s, slice)

\* --- PartialEq
\* a plausible slip: the window starts at slot 0, as if offset were min
Window_no_skip(c) == SkipTake(c.vec, 0, c.max + 1 - c.min)

\* vec.iter().skip(min - offset).take(max + 1 - min)
Window(c) == SkipTake(c.vec, c.min - c.offset, c.max + 1 - c.min)

\* zip(..).all(|(a, b)| a == b): the shorter window decides how far
ZipAllEq(a, b) == \A i \in 1..Min2(Len(a), Len(b)) : a[i] = b[i]

USet_eq(self, other) ==
  /\ self.len = other.len
  /\ self.min = other.min
  /\ self.max = other.max
  /\ ZipAllEq(Window(self), Window(other))

\* the subtractions eq makes before it compares the windows (usize)
USet_eq_panics(self, other) ==
  /\ self.len = other.len /\ self.min = other.min /\ self.max = other.max
  /\ \/ self.min < self.offset \/ self.max + 1 < self.min
     \/ other.min < other.offset \/ other.max + 1 < other.min

\* --- is_subset_of
\* find(|id| !other.contains(*id)) stops at the first key other lacks
USet_is_subset_of_panics(self, other) ==
  /\ ~(self.len > other.len)
  /\ LET ids == USet_iter(self) IN
       \E x \in 1..Len(ids) :
         /\ USet_contains_panics(other, ids[x])
         /\ \A y \in 1..(x - 1) : USet_contains(other, ids[y])

USet_is_subset_of(self, other) ==
  IF self.len > other.len THEN FALSE
  ELSE LET ids == USet_iter(self) IN
    \A x \in 1..Len(ids) : USet_contains(other, ids[x])

\* --- union
USet_union_branch(self, other) ==
  IF USet_is_empty(self) THEN (IF USet_is_empty(other) THEN "both_empty" ELSE "self_empty")
  ELSE IF USet_is_empty(other) THEN "other_empty"
  ELSE "merge"

\* self.contains(id) || other.contains(id), for every id of min..=max
USet_union_panics(self, other) ==
  /\ ~USet_is_empty(self) /\ ~USet_is_empty(other)
  /\ LET min == Min2(self.min, other.min)
         max == Max2(self.max, other.max)
     IN \/ max + 1 - min < 0
        \/ \E id \in min..max :
             \/ USet_contains_panics(self, id)
             \/ ~USet_contains(self, id) /\ USet_contains_panics(other, id)

USet_union(self, other) ==
  IF USet_is_empty(self) THEN (IF USet_is_empty(other) THEN EMPTY_SET ELSE other)
  ELSE IF USet_is_empty(other) THEN self
  ELSE
    LET min == Min2(self.min, other.min)
        max == Max2(self.max, other.max)
        vec == [j \in 1..(max + 1 - min) |->
                  USet_contains(self, j - 1 + min) \/ USet_contains(other, j - 1 + min)]
    IN [vec |-> vec, len |-> Cardinality({ j \in 1..Len(vec) : vec[j] }),
        offset |-> min, min |-> min, max |-> max]

\* --- difference
\* the keys of other that self contains: their slots are cleared
difference_cleared(self, other) ==
  LET ids == USet_iter(other) IN
    { ids[x] : x \in { y \in 1..Len(ids) : USet_contains(self, ids[y]) } }

difference_vec(self, other) ==
  [j \in 1..Len(self.vec) |->
     self.vec[j] /\ (j - 1 + self.offset) \notin difference_cleared(self, other)]

difference_len(self, other) ==
  self.len - Cardinality(difference_cleared(self, other))

USet_difference_branch(self, other) ==
  IF difference_len(self, other) = 0 THEN "empty" ELSE "some"

\* self.contains(id) indexes the buffer, len -= 1 is a usize subtraction,
\* and find_map(..).unwrap() needs a slot that holds true
USet_difference_panics(self, other) ==
  \/ LET ids == USet_iter(other) IN
       \E x \in 1..Len(ids) : USet_contains_panics(self, ids[x])
  \/ difference_len(self, other) < 0
  \/ /\ difference_len(self, other) # 0
     /\ \A j \in 1..Len(self.vec) : ~difference_vec(self, other)[j]

USet_difference(self, other) ==
  LET vec == difference_vec(self, other)
      len == difference_len(self, other)
      T == { j \in 1..Len(vec) : vec[j] }
  IN IF len = 0 THEN EMPTY_SET
     ELSE [vec |-> vec, len |-> len, offset |-> self.offset,
           min |-> SetMin(T) - 1 + self.offset, max |-> SetMax(T) - 1 + self.offset]

\* --- common_part, xor_set
\* the set the two build once the scans found min and max: a buffer over
\* min..=max with the slots `hit` names
tight_set(hits) ==
  IF hits = {} THEN EMPTY_SET
  ELSE LET min == SetMin(hits)
           max == SetMax(hits)
       IN [vec |-> [j \in 1..(max + 1 - min) |-> (j - 1 + min) \in hits],
           len |-> Cardinality(hits), offset |-> min, min |-> min, max |-> max]

common_part_range(self, other) ==
  Max2(self.min, other.min)..Min2(self.max, other.max)

\* self.contains(id) && other.contains(id)
common_part_hits(self, other) ==
  { id \in common_part_range(self, other) :
      USet_contains(self, id) /\ USet_contains(other, id) }

USet_common_part_branch(self, other) ==
  IF USet_is_empty(self) \/ USet_is_empty(other) THEN "empty_operand"
  ELSE IF common_part_hits(self, other) = {} THEN "no_common_key"
  ELSE "some"

\* the two scans and the loop evaluate the test on every id of the range
USet_common_part_panics(self, other) ==
  /\ ~USet_is_empty(self) /\ ~USet_is_empty(other)
  /\ \E id \in common_part_range(self, other) :
       \/ USet_contains_panics(self, id)
       \/ USet_contains(self, id) /\ USet_contains_panics(other, id)

USet_common_part(self, other) ==
  IF USet_is_empty(self) \/ USet_is_empty(other) THEN EMPTY_SET
  ELSE tight_set(common_part_hits(self, other))

xor_set_range(self, other) ==
  Min2(self.min, other.min)..Max2(self.max, other.max)

\* (self.contains(id) && !other.contains(id)) || (!self.contains(id) && other.contains(id))
xor_set_hits(self, other) ==
  { id \in xor_set_range(self, other) :
      USet_contains(self, id) # USet_contains(other, id) }

USet_xor_set_branch(self, other) ==
  IF USet_is_empty(self) /\ USet_is_empty(other) THEN "both_empty"
  ELSE IF USet_is_empty(self) THEN "self_empty"
  ELSE IF USet_is_empty(other) THEN "other_empty"
  ELSE IF xor_set_hits(self, other) = {} THEN "no_key"
  ELSE "some"

USet_xor_set_panics(self, other) ==
  /\ ~USet_is_empty(self) /\ ~USet_is_empty(other)
  /\ \E id \in xor_set_range(self, other) :
       USet_contains_panics(self, id) \/ USet_contains_panics(other, id)

USet_xor_set(self, other) ==
  IF USet_is_empty(self) /\ USet_is_empty(other) THEN EMPTY_SET
  ELSE IF USet_is_empty(self) THEN other
  ELSE IF USet_is_empty(other) THEN self
  ELSE tight_set(xor_set_hits(self, other))

\* ------------------------------------------------------------------ UMap
Nones(n) == [i \in 1..n |-> None]

\* the keys whose slot holds a value: the map's actual content
MapMembers(m) == { m.offset + i - 1 : i \in { j \in 1..Len(m.vec) : m.vec[j] # None } }

UMap_with_capacity(size) ==
  [vec |-> Nones(size), len |-> 0, offset |-> 0, min |-> 0, max |-> 0]

UMap_new == UMap_with_capacity(0)

UMap_len(m) == m.len

UMap_is_empty(m) == m.len = 0

UMap_capacity(m) == Len(m.vec)

UMap_contains_panics(m, id) ==
  id >= m.min /\ id <= m.max /\ ~InBuf(m.vec, id - m.offset)

UMap_contains(m, id) ==
  id >= m.min /\ id <= m.max /\ InBuf(m.vec, id - m.offset)
    /\ At(m.vec, id - m.offset) # None

\* get, get_ref and get_ref_mut read vec.get_unchecked(id - offset) once id is
\* within [min, max]: outside the buffer the read is undefined behaviour
UMap_get_undefined(m, id) ==
  id >= m.min /\ id <= m.max /\ ~InBuf(m.vec, id - m.offset)

\* what the read returns where it is defined (None stands in where it is not)
UMap_get(m, id) ==
  IF id >= m.min /\ id <= m.max /\ InBuf(m.vec, id - m.offset)
  THEN At(m.vec, id - m.offset)
  ELSE None

UMap_get_ref(m, id) ==
  IF id >= m.min /\ id <= m.max /\ InBuf(m.vec, id - m.offset)
  THEN IF At(m.vec, id - m.offset) # None THEN At(m.vec, id - m.offset) ELSE None
  ELSE None

UMap_get_ref_mut(m, id) ==
  IF id >= m.min /\ id <= m.max /\ InBuf(m.vec, id - m.offset)
  THEN IF At(m.vec, id - m.offset) # None THEN At(m.vec, id - m.offset) ELSE None
  ELSE None

UMap_min(m) == IF UMap_is_empty(m) THEN None ELSE Some(m.min)

UMap_max(m) == IF UMap_is_empty(m) THEN None ELSE Some(m.max)

\* --- put
put_zero_capacity(m, id, value) ==
  [vec |-> SetAt(Nones(INITIAL_CAPACITY), 0, Some(value)),
   len |-> m.len + 1, offset |-> id, min |-> id, max |-> id]

put_empty(m, id, value) ==
  [vec |-> SetAt(m.vec, 0, Some(value)), len |-> 1, offset |-> id, min |-> id,
   max |-> id]

\* the buffer built when id < offset: max - id + 1 slots, slot 0 holds the
\* value, then every i in min..=max is copied to slot i - id
put_below_vec(m, id, value) ==
  [j \in 1..(m.max - id + 1) |->
     LET i == id + j - 1 IN
       IF i >= m.min /\ i <= m.max THEN UMap_get(m, i)
       ELSE IF j = 1 THEN Some(value) ELSE None]

put_below_offset(m, id, value) ==
  [vec |-> put_below_vec(m, id, value), len |-> m.len + 1, offset |-> id,
   min |-> id, max |-> m.max]

put_beyond_capacity(m, id, value) ==
  [m EXCEPT !.vec = SetAt(Resize(m.vec, id + 1 - m.offset, None), id - m.offset,
                          Some(value)),
            !.len = m.len + 1,
            !.max = id]

put_in_buffer(m, id, value) ==
  [m EXCEPT !.vec = SetAt(m.vec, id - m.offset, Some(value)),
            !.len = m.len + 1,
            !.min = IF id < m.min THEN id ELSE m.min,
            !.max = IF id < m.min THEN m.max ELSE IF id > m.max THEN id ELSE m.max]

\* the last arm of the match: the slot holds a value already, nothing is done
put_present(m, id, value) == m

UMap_put_branch(m, id) ==
  IF UMap_capacity(m) = 0 THEN "zero_capacity"
  ELSE IF UMap_is_empty(m) THEN "empty"
  ELSE IF id < m.offset THEN "below_offset"
  ELSE IF id >= m.offset + UMap_capacity(m) THEN "beyond_capacity"
  ELSE IF At(m.vec, id - m.offset) = None THEN "in_buffer"
  ELSE "present"

\* max - id + 1 or i - id below zero
UMap_put_panics(m, id) ==
  /\ UMap_put_branch(m, id) = "below_offset"
  /\ (m.max < id \/ (m.min <= m.max /\ m.min < id))

\* a get(i) of the copy loop reads outside the buffer
UMap_put_undefined(m, id) ==
  /\ UMap_put_branch(m, id) = "below_offset"
  /\ \E i \in m.min..m.max : UMap_get_undefined(m, i)

UMap_put(m, id, value) ==
  LET b == UMap_put_branch(m, id) IN
    IF b = "zero_capacity" THEN put_zero_capacity(m, id, value)
    ELSE IF b = "empty" THEN put_empty(m, id, value)
    ELSE IF b = "below_offset" THEN put_below_offset(m, id, value)
    ELSE IF b = "beyond_capacity" THEN put_beyond_capacity(m, id, value)
    ELSE IF b = "in_buffer" THEN put_in_buffer(m, id, value)
    ELSE put_present(m, id, value)

\* --- push, push_all
UMap_enlarge_capacity_to(m, new_capacity) ==
  IF new_capacity > UMap_capacity(m) THEN
    [m EXCEPT !.vec = Resize(m.vec, new_capacity, None)]
  ELSE m

\* the key push uses
push_id(m) == m.max + 1

UMap_push_panics(m) == UMap_put_panics(m, push_id(m))

UMap_push_undefined(m) == UMap_put_undefined(m, push_id(m))

UMap_push(m, value) == UMap_put(m, push_id(m), value)

RECURSIVE map_push_each(_, _)
map_push_each(m, values) ==
  IF values = <<>> THEN m
  ELSE map_push_each(UMap_push(m, Head(values)), Tail(values))

RECURSIVE map_push_each_panics(_, _)
map_push_each_panics(m, values) ==
  /\ values # <<>>
  /\ \/ UMap_push_panics(m) \/ UMap_push_undefined(m)
     \/ map_push_each_panics(UMap_push(m, Head(values)), Tail(values))

\* the ids the pushes of push_all return, collected in input order
RECURSIVE map_push_each_ids(_, _)
map_push_each_ids(m, values) ==
  IF values = <<>> THEN <<>>
  ELSE <<push_id(m)>> \o map_push_each_ids(UMap_push(m, Head(values)), Tail(values))

UMap_push_all_ret(m, slice) ==
  map_push_each_ids(UMap_enlarge_capacity_to(m, UMap_capacity(m) + Len(slice)), slice)

UMap_push_all_panics(m, slice) ==
  map_push_each_panics(UMap_enlarge_capacity_to(m, UMap_capacity(m) + Len(slice)), slice)

UMap_push_all(m, slice) ==
  map_push_each(UMap_enlarge_capacity_to(m, UMap_capacity(m) + Len(slice)), slice)

\* --- remove
\* (lo..hi).find(|i| vec[i - offset].is_some()) as the set of hits; a hit
\* outside the buffer is a panic of the checked index
MapScanHits(vec, offset, lo, hi) ==
  { i \in lo..(hi - 1) : ~InBuf(vec, i - offset) \/ At(vec, i - offset) # None }

map_remove_new_min(m, vec) ==
  LET H == MapScanHits(vec, m.offset, m.min, m.max) IN
    IF H = {} THEN m.max ELSE SetMin(H)

map_remove_new_max(m, vec) ==
  LET H == MapScanHits(vec, m.offset, m.min, m.max) IN
    IF H = {} THEN m.min ELSE SetMax(H)

UMap_remove_branch(m, id) ==
  IF id < m.min \/ id > m.max \/ ~UMap_contains(m, id) THEN "absent"
  ELSE IF m.len = 1 THEN "last"
  ELSE IF id > m.min /\ id < m.max THEN "interior"
  ELSE IF id = m.min THEN "min"
  ELSE IF id = m.max THEN "max"
  ELSE "none"

UMap_remove_panics(m, id) ==
  \/ UMap_contains_panics(m, id)
  \/ /\ ~UMap_contains_panics(m, id)
     /\ UMap_remove_branch(m, id) \in {"min", "max"}
     /\ \E i \in MapScanHits(SetAt(m.vec, id - m.offset, None), m.offset, m.min, m.max) :
          ~InBuf(m.vec, i - m.offset)

\* a remove of the last value that leaves offset, min and max as they were
map_remove_last_keeps_fields(m, id) ==
  [m EXCEPT !.vec = SetAt(m.vec, id - m.offset, None), !.len = 0]

map_remove_last(m, id) ==
  [vec |-> SetAt(m.vec, id - m.offset, None), len |-> 0, offset |-> 0, min |-> 0,
   max |-> 0]

map_remove_interior(m, id) ==
  [m EXCEPT !.vec = SetAt(m.vec, id - m.offset, None), !.len = m.len - 1]

\* a remove of the minimum that does not look for the next one
map_remove_min_keeps_min(m, id) ==
  [m EXCEPT !.vec = SetAt(m.vec, id - m.offset, None), !.len = m.len - 1]

map_remove_min(m, id) ==
  [m EXCEPT !.vec = SetAt(m.vec, id - m.offset, None),
            !.len = m.len - 1,
            !.min = map_remove_new_min(m, SetAt(m.vec, id - m.offset, None))]

map_remove_max(m, id) ==
  [m EXCEPT !.vec = SetAt(m.vec, id - m.offset, None),
            !.len = m.len - 1,
            !.max = map_remove_new_max(m, SetAt(m.vec, id - m.offset, None))]

UMap_remove(m, id) ==
  LET b == UMap_remove_branch(m, id) IN
    IF b = "last" THEN map_remove_last(m, id)
    ELSE IF b = "interior" THEN map_remove_interior(m, id)
    ELSE IF b = "min" THEN map_remove_min(m, id)
    ELSE IF b = "max" THEN map_remove_max(m, id)
    ELSE m

\* the value remove returns
UMap_remove_ret(m, id) ==
  IF UMap_remove_branch(m, id) \in {"last", "interior", "min", "max"}
  THEN At(m.vec, id - m.offset)
  ELSE None

\* --- iteration
\* UMapIter::next: the (id, value) returned and the front cursor afterwards
RECURSIVE UMapIter_next(_, _, _)
UMapIter_next(m, index, rindex) ==
  IF index < Len(m.vec) - rindex THEN
    IF At(m.vec, index) # None
    THEN [ret |-> Some(<<index + m.offset, At(m.vec, index)[1]>>), index |-> index + 1]
    ELSE UMapIter_next(m, index + 1, rindex)
  ELSE [ret |-> None, index |-> index]

\* all pairs the iterator yields from the front cursor `index` on
RECURSIVE UMap_iter_collect(_, _)
UMap_iter_collect(m, index) ==
  LET n == UMapIter_next(m, index, 0) IN
    IF n.ret = None THEN <<>> ELSE <<n.ret[1]>> \o UMap_iter_collect(m, n.index)

UMap_iter(m) == UMap_iter_collect(m, 0)

RECURSIVE map_at_index_loop(_, _, _)
map_at_index_loop(m, it, n) ==
  IF n = 0 THEN UMapIter_next(m, it, 0).ret
  ELSE map_at_index_loop(m, UMapIter_next(m, it, 0).index, n - 1)

UMap_at_index(m, index) ==
  IF index >= m.len THEN None ELSE map_at_index_loop(m, 0, index)

UMap_pop_panics(m, index) ==
  LET d == UMap_at_index(m, index) IN d # None /\ UMap_remove_panics(m, d[1][1])

UMap_pop(m, index) ==
  LET d == UMap_at_index(m, index) IN IF d # None THEN UMap_remove(m, d[1][1]) ELSE m

\* --- keys
UMap_keys_panics(m) ==
  USet_from_fields_panics([j \in 1..Len(m.vec) |-> m.vec[j] # None], m.offset)

UMap_keys(m) ==
  USet_from_fields([j \in 1..Len(m.vec) |-> m.vec[j] # None], m.offset)

\* --- capacity
map_shrink_vec(m) == [j \in 1..(m.max - m.min + 1) |-> UMap_get(m, m.min + j - 1)]

map_shrink_needed(m) ==
  ~UMap_is_empty(m) /\ (At(m.vec, 0) = None \/ At(m.vec, Len(m.vec) - 1) = None)

\* vec[0] on an empty buffer, or max - min + 1 below zero
UMap_shrink_to_fit_panics(m) ==
  /\ ~UMap_is_empty(m)
  /\ \/ UMap_capacity(m) = 0
     \/ UMap_capacity(m) > 0 /\ map_shrink_needed(m) /\ m.max < m.min

UMap_shrink_to_fit_undefined(m) ==
  /\ ~UMap_is_empty(m) /\ UMap_capacity(m) > 0 /\ map_shrink_needed(m)
  /\ \E id \in m.min..m.max : UMap_get_undefined(m, id)

UMap_shrink_to_fit(m) ==
  IF ~UMap_is_empty(m) /\ (At(m.vec, 0) = None \/ At(m.vec, Len(m.vec) - 1) = None) THEN
    [m EXCEPT !.vec = map_shrink_vec(m), !.offset = m.min]
  ELSE IF UMap_is_empty(m) /\ UMap_capacity(m) > 0 THEN
    [m EXCEPT !.vec = <<>>]
  ELSE m

\* --- truncate, drain, clear
\* the 0-based indices of the slots that hold a value, ascending
RECURSIVE SomeIndices(_, _)
SomeIndices(vec, from) ==
  IF from >= Len(vec) THEN <<>>
  ELSE IF At(vec, from) # None THEN <<from>> \o SomeIndices(vec, from + 1)
  ELSE SomeIndices(vec, from + 1)

map_truncate_kept(m, len) ==
  LET t == SomeIndices(m.vec, 0) IN SubSeq(t, 1, IF len < Len(t) THEN len ELSE Len(t))

map_truncate_dropped(m, len) ==
  LET t == SomeIndices(m.vec, 0) IN SubSeq(t, len + 1, Len(t))

map_truncate_new_max(m, len) ==
  LET k == map_truncate_kept(m, len) IN IF k = <<>> THEN 0 ELSE k[Len(k)]

map_truncate_some(m, len) ==
  LET k == map_truncate_kept(m, len) IN
    [m EXCEPT !.vec = [j \in 1..Len(m.vec) |->
                         IF \E x \in 1..Len(k) : k[x] = j - 1 THEN m.vec[j] ELSE None],
              !.max = map_truncate_new_max(m, len) + m.offset,
              !.len = len]

map_truncate_all(m) ==
  [vec |-> Nones(Len(m.vec)), len |-> 0, offset |-> 0, min |-> 0, max |-> 0]

UMap_truncate_branch(m, len) ==
  IF ~UMap_is_empty(m) /\ len > 0 /\ len < m.len THEN "some"
  ELSE IF ~UMap_is_empty(m) /\ len = 0 THEN "all"
  ELSE "none"

UMap_truncate(m, len) ==
  IF ~UMap_is_empty(m) /\ len > 0 /\ len < m.len THEN map_truncate_some(m, len)
  ELSE IF ~UMap_is_empty(m) /\ len = 0 THEN map_truncate_all(m)
  ELSE m

UMap_clear(m) == UMap_truncate(m, 0)

RECURSIVE put_each(_, _)
put_each(m, pairs) ==
  IF pairs = <<>> THEN m
  ELSE put_each(UMap_put(m, Head(pairs)[1], Head(pairs)[2]), Tail(pairs))

RECURSIVE put_each_panics(_, _)
put_each_panics(m, pairs) ==
  /\ pairs # <<>>
  /\ \/ UMap_put_panics(m, Head(pairs)[1]) \/ UMap_put_undefined(m, Head(pairs)[1])
     \/ put_each_panics(UMap_put(m, Head(pairs)[1], Head(pairs)[2]), Tail(pairs))

\* the (key, value) pairs drain moves to the new map
drain_dropped_pairs(m, len) ==
  LET d == map_truncate_dropped(m, len) IN
    [x \in 1..Len(d) |-> <<d[x] + m.offset, At(m.vec, d[x])[1]>>]

drain_filled_map(m, len) ==
  put_each(UMap_with_capacity(m.len - len), drain_dropped_pairs(m, len))

UMap_drain_panics(m, len) ==
  /\ ~UMap_is_empty(m) /\ len > 0 /\ len < m.len
  /\ \/ put_each_panics(UMap_with_capacity(m.len - len), drain_dropped_pairs(m, len))
     \/ UMap_shrink_to_fit_panics(drain_filled_map(m, len))
     \/ UMap_shrink_to_fit_undefined(drain_filled_map(m, len))

\* what drain returns
UMap_drain_ret(m, len) ==
  IF ~UMap_is_empty(m) /\ len > 0 /\ len < m.len
  THEN UMap_shrink_to_fit(drain_filled_map(m, len))
  ELSE IF ~UMap_is_empty(m) /\ len = 0 THEN m
  ELSE UMap_with_capacity(0)

\* what drain leaves
UMap_drain(m, len) ==
  IF ~UMap_is_empty(m) /\ len > 0 /\ len < m.len THEN map_truncate_some(m, len)
  ELSE IF ~UMap_is_empty(m) /\ len = 0 THEN map_truncate_all(m)
  ELSE m

\* --- from_slice
PairMin(slice) == SetMin({slice[i][1] : i \in 1..Len(slice)})

PairMax(slice) == SetMax({slice[i][1] : i \in 1..Len(slice)})

\* vec[id - min] = Some(value) for every pair in turn: the last pair of a key
\* is the one that stays
LastWritten(slice, id) ==
  LET X == { x \in 1..Len(slice) : slice[x][1] = id } IN
    IF X = {} THEN None ELSE Some(slice[SetMax(X)][2])

UMap_make_from_slice(slice) ==
  IF Len(slice) = 0 THEN [min |-> 0, max |-> 0, len |-> 0, vec |-> <<>>]
  ELSE IF Len(slice) = 1 THEN
    [min |-> slice[1][1], max |-> slice[1][1], len |-> 1, vec |-> <<Some(slice[1][2])>>]
  ELSE
    LET min == PairMin(slice)
        max == PairMax(slice)
        capacity == Max2(INITIAL_CAPACITY, max + 1 - min)
    IN [min |-> min, max |-> max, len |-> Len(slice),
        vec |-> [j \in 1..capacity |-> LastWritten(slice, min + j - 1)]]

UMap_from_slice(slice) ==
  IF slice = <<>> THEN UMap_new
  ELSE LET f == UMap_make_from_slice(slice) IN
    [vec |-> f.vec, len |-> f.len, offset |-> f.min, min |-> f.min, max |-> f.max]

\* --- put_all
RECURSIVE put_all_in_place(_, _)
put_all_in_place(m, slice) ==
  IF slice = <<>> THEN m
  ELSE LET id == Head(slice)[1] IN
    IF At(m.vec, id - m.offset) = None THEN
      put_all_in_place([m EXCEPT !.vec = SetAt(m.vec, id - m.offset, Some(Head(slice)[2])),
                                 !.len = m.len + 1], Tail(slice))
    ELSE put_all_in_place(m, Tail(slice))

\* the old pairs the widening branch copies into the new buffer
put_all_copied(m) ==
  SkipTake(UMap_iter(m), m.min - m.offset, m.max - m.min + 1)

RECURSIVE put_all_write(_, _, _, _)
put_all_write(new_vec, len, new_min, slice) ==
  IF slice = <<>> THEN [vec |-> new_vec, len |-> len]
  ELSE LET id == Head(slice)[1] IN
    IF At(new_vec, id - new_min) = None THEN
      put_all_write(SetAt(new_vec, id - new_min, Some(Head(slice)[2])), len + 1, new_min,
                    Tail(slice))
    ELSE put_all_write(new_vec, len, new_min, Tail(slice))

put_all_widen(m, slice) ==
  LET new_min == Min2(m.min, PairMin(slice))
      new_max == Max2(m.max, PairMax(slice))
      c == put_all_copied(m)
      copied == [j \in 1..(new_max - new_min + 1) |-> LastWritten(c, new_min + j - 1)]
      w == put_all_write(copied, m.len, new_min, slice)
  IN [vec |-> w.vec, len |-> w.len, offset |-> new_min, min |-> new_min, max |-> new_max]

UMap_put_all_branch(m, slice) ==
  IF slice = <<>> THEN "empty_slice"
  ELSE IF UMap_is_empty(m) THEN "empty_self"
  ELSE IF PairMin(slice) >= m.min /\ PairMax(slice) <= m.max THEN "in_place"
  ELSE "widen"

UMap_put_all_panics(m, slice) ==
  /\ slice # <<>>
  /\ ~UMap_is_empty(m)
  /\ IF PairMin(slice) >= m.min /\ PairMax(slice) <= m.max
     THEN \E x \in 1..Len(slice) : ~InBuf(m.vec, slice[x][1] - m.offset)
     ELSE \/ m.min < m.offset
          \/ m.max < m.min
          \/ \E x \in 1..Len(put_all_copied(m)) :
               LET id == put_all_copied(m)[x][1] IN
                 id < Min2(m.min, PairMin(slice)) \/ id > Max2(m.max, PairMax(slice))

UMap_put_all(m, slice) ==
  IF slice = <<>> THEN m
  ELSE IF UMap_is_empty(m) THEN
    LET f == UMap_make_from_slice(slice) IN
      [vec |-> f.vec, len |-> f.len, offset |-> f.min, min |-> f.min, max |-> f.max]
  ELSE IF PairMin(slice) >= m.min /\ PairMax(slice) <= m.max THEN
    put_all_in_place(m, slice)
  ELSE put_all_widen(m, slice)

\* --- remove_all
RECURSIVE map_remove_each(_, _)
map_remove_each(m, ids) ==
  IF ids = <<>> THEN m ELSE map_remove_each(UMap_remove(m, Head(ids)), Tail(ids))

RECURSIVE map_remove_each_panics(_, _)
map_remove_each_panics(m, ids) ==
  /\ ids # <<>>
  /\ \/ UMap_remove_panics(m, Head(ids))
     \/ /\ ~UMap_remove_panics(m, Head(ids))
        /\ map_remove_each_panics(UMap_remove(m, Head(ids)), Tail(ids))

UMap_remove_all_panics(m, subset) == map_remove_each_panics(m, USet_iter(subset))

UMap_remove_all(m, subset) == map_remove_each(m, USet_iter(subset))

\* --- replace, replace_all
\* the maps a replace can leave: where get_ref_mut reads outside the buffer it
\* may see a value (the write then lands outside the buffer and the map is as
\* it was) or see none (the pair is put)
UMap_replace(m, id, value) ==
  IF UMap_get_undefined(m, id) THEN
    {m} \cup (IF UMap_put_panics(m, id) \/ UMap_put_undefined(m, id) THEN {}
             ELSE {UMap_put(m, id, value)})
  ELSE IF UMap_get_ref_mut(m, id) # None
  THEN {[m EXCEPT !.vec = SetAt(m.vec, id - m.offset, Some(value))]}
  ELSE {UMap_put(m, id, value)}

\* the put replace falls back to faults
UMap_replace_panics(m, id) ==
  /\ ~UMap_get_undefined(m, id)
  /\ UMap_get_ref_mut(m, id) = None
  /\ (UMap_put_panics(m, id) \/ UMap_put_undefined(m, id))

RECURSIVE replace_each(_, _)
replace_each(M, pairs) ==
  IF pairs = <<>> THEN M
  ELSE replace_each(
         UNION { IF UMap_replace_panics(m, Head(pairs)[1]) THEN {}
                 ELSE UMap_replace(m, Head(pairs)[1], Head(pairs)[2]) : m \in M },
         Tail(pairs))

\* some replace of the loop reads outside the buffer
RECURSIVE replace_each_undefined(_, _)
replace_each_undefined(M, pairs) ==
  /\ pairs # <<>>
  /\ \/ \E m \in M : UMap_get_undefined(m, Head(pairs)[1])
     \/ replace_each_undefined(replace_each(M, <<Head(pairs)>>), Tail(pairs))

\* some replace of the loop faults in its put
RECURSIVE replace_each_panics(_, _)
replace_each_panics(M, pairs) ==
  /\ pairs # <<>>
  /\ \/ \E m \in M : UMap_replace_panics(m, Head(pairs)[1])
     \/ replace_each_panics(replace_each(M, <<Head(pairs)>>), Tail(pairs))

\* what the loop of replace_all meets: nothing to copy, an empty map (every
\* replace ends in put), or a map with entries
UMap_replace_all_branch(m, other) ==
  IF UMap_is_empty(other) THEN "none"
  ELSE IF UMap_is_empty(m) THEN "into_empty"
  ELSE "each"

UMap_replace_all_undefined(m, other) == replace_each_undefined({m}, UMap_iter(other))

UMap_replace_all_panics(m, other) == replace_each_panics({m}, UMap_iter(other))

UMap_replace_all(m, other) == replace_each({m}, UMap_iter(other))

\* --- join
\* debug_assert! of debug_compare (debug assertions on, as in the test
\* build): the two iterators are zipped, and a pair with the same key and
\* different values fails the assertion
debug_compare_fails(self, other) ==
  LET a == UMap_iter(self)
      b == UMap_iter(other)
  IN \E x \in 1..Min2(Len(a), Len(b)) : a[x][1] = b[x][1] /\ a[x][2] # b[x][2]

UMap_join_branch(self, other) ==
  IF UMap_is_empty(self) THEN (IF UMap_is_empty(other) THEN "both_empty" ELSE "self_empty")
  ELSE IF UMap_is_empty(other) THEN "other_empty"
  ELSE "merge"

join_vec(self, other, min, max) ==
  [j \in 1..(max + 1 - min) |->
     IF UMap_contains(self, j - 1 + min) THEN UMap_get(self, j - 1 + min)
     ELSE IF UMap_contains(other, j - 1 + min) THEN UMap_get(other, j - 1 + min)
     ELSE None]

\* the failed assertion, max + 1 - min below zero, or a contains() that
\* indexes outside the buffer
UMap_join_panics(self, other) ==
  /\ UMap_join_branch(self, other) = "merge"
  /\ LET min == Min2(self.min, other.min)
         max == Max2(self.max, other.max)
     IN \/ debug_compare_fails(self, other)
        \/ max + 1 < min
        \/ \E id \in min..max :
             \/ UMap_contains_panics(self, id)
             \/ ~UMap_contains(self, id) /\ UMap_contains_panics(other, id)

UMap_join(self, other) ==
  LET b == UMap_join_branch(self, other) IN
    IF b = "both_empty" THEN UMap_new
    ELSE IF b = "self_empty" THEN other
    ELSE IF b = "other_empty" THEN self
    ELSE
      LET min == Min2(self.min, other.min)
          max == Max2(self.max, other.max)
          vec == join_vec(self, other, min, max)
      IN [vec |-> vec,
          len |-> Cardinality({ j \in 1..Len(vec) : vec[j] # None }),
          offset |-> min, min |-> min, max |-> max]

\* --- submap
\* a get(id) of the loop reads outside the buffer of the map
UMap_submap_undefined(self, set) ==
  /\ ~USet_is_empty(set)
  /\ set.min <= set.max
  /\ \E x \in 1..Len(USet_iter(set)) : UMap_get_undefined(self, USet_iter(set)[x])

\* max - min + 1 below zero, or vec[id - min] outside the new buffer
UMap_submap_panics(self, set) ==
  /\ ~USet_is_empty(set)
  /\ \/ set.max < set.min
     \/ \E x \in 1..Len(USet_iter(set)) :
          USet_iter(set)[x] < set.min \/ USet_iter(set)[x] > set.max

UMap_submap(self, set) ==
  IF USet_is_empty(set) THEN UMap_new
  ELSE
    [vec |-> [j \in 1..(set.max - set.min + 1) |->
                IF \E x \in 1..Len(USet_iter(set)) : USet_iter(set)[x] = set.min + j - 1
                THEN UMap_get(self, set.min + j - 1) ELSE None],
     len |-> USet_len(set), offset |-> set.min, min |-> set.min, max |-> set.max]

\* --- query
\* the ids of min..=max whose value satisfies the predicate, ascending; a
\* predicate is the set of values it accepts
RECURSIVE query_ids(_, _, _)
query_ids(self, accepted, id) ==
  IF id > self.max THEN <<>>
  ELSE (IF UMap_get_ref(self, id) # None /\ UMap_get_ref(self, id)[1] \in accepted
        THEN <<id>> ELSE <<>>) \o query_ids(self, accepted, id + 1)

\* a get_ref(id) of the loop reads outside the buffer
UMap_query_undefined(self) ==
  /\ ~UMap_is_empty(self)
  /\ \E id \in self.min..self.max : UMap_get_undefined(self, id)

\* max - min + 1 below zero
UMap_query_panics(self) == ~UMap_is_empty(self) /\ self.max < self.min

UMap_query(self, accepted) ==
  IF UMap_is_empty(self) THEN USet_new
  ELSE USet_from_slice(query_ids(self, accepted, self.min))

UMap_eq(self, other) ==
  /\ self.len = other.len
  /\ self.min = other.min
  /\ self.max = other.max
  /\ ZipAllEq(Window(self), Window(other))

\* ------------------------------------------------------------ the program
\* kind:     which collection the program works on, "USet" or "UMap"
\* set, map: the collection
\* res:      the collection returned by the last call, when it returns one
\* ret:      the Option<T> returned by the last get, get_ref or get_ref_mut
\* last:     the last call: its name and the branch of its code it took
\* history:  whether the program keeps `last`; fixed when it starts
\* arg:      the slice the program hands to from_slice
\* it:       the USetIter over the set: its cursors, the keys it has yielded,
\*           and whether it is live (created, and has not yet returned None)
\* panicked: the last call panicked; the program has stopped
VARIABLES kind, set, map, operand, res, ret, last, history, arg, it, panicked

vars == <<kind, set, map, operand, res, ret, last, history, arg, it, panicked>>

Called(op, branch) == [op |-> op, branch |-> branch]

Note(op, branch) == IF history THEN Called(op, branch) ELSE Called("", "")

\* no iterator yet
NoIter == [index |-> 0, rindex |-> 0, items |-> <<>>, back |-> <<>>,
           made |-> FALSE, live |-> FALSE]

Capacities == 0..MaxCapacity

\* slices of keys, in any order, duplicates allowed
Slices == UNION { [1..n -> Keys] : n \in 0..MaxSliceLen }

\* the sets from_slice builds from them
SliceSets == { USet_from_slice(slice) : slice \in Slices }

\* a call on the set: it panics, or it leaves `after` and hands back the
\* collection `out`
SetCall(op, branch, panics, after, out) ==
  /\ panics \/ after.len <= Cardinality(Members(after)) + MaxDrift
  /\ panicked' = panics
  /\ last' = Note(op, branch)
  /\ set' = IF panics THEN set ELSE after
  /\ res' = IF panics THEN EMPTY_SET ELSE out
  /\ ret' = None
  /\ operand' = EMPTY_SET
  /\ UNCHANGED <<kind, map, history, arg, it>>

Push(id) ==
  /\ kind = "USet" /\ ~panicked
  /\ SetCall("push", USet_push_branch(set, id), USet_push_panics(set, id),
             USet_push(set, id), EMPTY_SET)

Remove(id) ==
  /\ kind = "USet" /\ ~panicked
  /\ SetCall("remove", USet_remove_branch(set, id), USet_remove_panics(set, id),
             USet_remove(set, id), EMPTY_SET)

Pop(index) ==
  /\ kind = "USet" /\ ~panicked
  /\ SetCall("pop", IF USet_at_index(set, index) = None THEN "none" ELSE "some",
             USet_pop_panics(set, index), USet_pop(set, index), EMPTY_SET)

RemoveAll(other) ==
  /\ kind = "USet" /\ ~panicked
  /\ SetCall("remove_all", "", USet_remove_all_panics(set, other),
             USet_remove_all(set, other), EMPTY_SET)

PushAll(slice) ==
  /\ kind = "USet" /\ ~panicked
  /\ SetCall("push_all", USet_push_all_branch(set, slice),
             USet_push_all_panics(set, slice), USet_push_all(set, slice), EMPTY_SET)

Truncate(len) ==
  /\ kind = "USet" /\ ~panicked
  /\ SetCall("truncate", USet_truncate_branch(set, len), FALSE,
             USet_truncate(set, len), EMPTY_SET)

Drain(len) ==
  /\ kind = "USet" /\ ~panicked
  /\ SetCall("drain", USet_truncate_branch(set, len), USet_drain_panics(set, len),
             USet_drain(set, len), USet_drain_ret(set, len))

Clear ==
  /\ kind = "USet" /\ ~panicked
  /\ SetCall("clear", USet_truncate_branch(set, 0), FALSE, USet_clear(set), EMPTY_SET)

ShrinkToFit ==
  /\ kind = "USet" /\ ~panicked
  /\ SetCall("shrink_to_fit", "", USet_shrink_to_fit_panics(set),
             USet_shrink_to_fit(set), EMPTY_SET)

EnlargeCapacityTo(new_capacity) ==
  /\ kind = "USet" /\ ~panicked
  /\ SetCall("enlarge_capacity_to", USet_enlarge_capacity_to_branch(set, new_capacity), FALSE,
             USet_enlarge_capacity_to(set, new_capacity), EMPTY_SET)

Contains(id) ==
  /\ kind = "USet" /\ ~panicked
  /\ SetCall("contains", "", USet_contains_panics(set, id), set, EMPTY_SET)

AtIndex(index) ==
  /\ kind = "USet" /\ ~panicked
  /\ SetCall("at_index", "", FALSE, set, EMPTY_SET)

Min ==
  /\ kind = "USet" /\ ~panicked
  /\ SetCall("min", "", FALSE, set, EMPTY_SET)

Max ==
  /\ kind = "USet" /\ ~panicked
  /\ SetCall("max", "", FALSE, set, EMPTY_SET)

\* buffers handed to from_fields with their offset: at least one slot set,
\* no key above MaxKey
FieldsInputs ==
  { <<vec, offset>> \in
      (UNION { [1..n -> BOOLEAN] : n \in 1..(MaxKey + 1) }) \X Keys :
        /\ offset + Len(vec) - 1 <= MaxKey
        /\ ~USet_from_fields_panics(vec, offset) }

\* every way to construct a USet
SetConstructed ==
  [op : {"with_capacity"}, s : {USet_with_capacity(n) : n \in Capacities}]
  \cup [op : {"from_slice"}, s : SliceSets]
  \cup [op : {"from_range"},
        s : {USet_from_range(a, b) : a \in Keys, b \in 0..(MaxKey + 1)}]
  \cup [op : {"from_fields"}, s : {USet_from_fields(f[1], f[2]) : f \in FieldsInputs}]

\* USet::new() or USet::with_capacity(n)
InitBasic ==
  /\ kind = "USet"
  /\ set \in {USet_new} \cup {USet_with_capacity(n) : n \in Capacities}
  /\ map = UMap_new
  /\ res = EMPTY_SET
  /\ ret = None
  /\ history = TRUE
  /\ arg = <<>>
  /\ it = NoIter
  /\ operand = EMPTY_SET
  /\ last = Called("with_capacity", "")
  /\ panicked = FALSE

InitSet ==
  /\ kind = "USet"
  /\ \E c \in SetConstructed :
       /\ set = c.s
       /\ last = Called(c.op, "")
  /\ map = UMap_new
  /\ res = EMPTY_SET
  /\ ret = None
  /\ history = TRUE
  /\ arg = <<>>
  /\ it = NoIter
  /\ operand = EMPTY_SET
  /\ panicked = FALSE

NextBasic ==
  \/ \E id \in Keys : Push(id)
  \/ \E id \in Keys : Remove(id)
  \/ \E index \in 0..MaxKey : Pop(index)

NextSetKeep ==
  \/ \E id \in Keys : Push(id)
  \/ \E id \in Keys : Remove(id)
  \/ \E index \in 0..MaxKey : Pop(index)
  \/ \E other \in SliceSets : RemoveAll(other)
  \/ \E len \in 0..MaxKey : Truncate(len)
  \/ \E len \in 0..MaxKey : Drain(len)
  \/ Clear
  \/ ShrinkToFit
  \/ \E n \in Capacities : EnlargeCapacityTo(n)

\* every call that changes the set
NextSetMut ==
  \/ \E id \in Keys : Push(id)
  \/ \E id \in Keys : Remove(id)
  \/ \E index \in 0..MaxKey : Pop(index)
  \/ \E other \in SliceSets : RemoveAll(other)
  \/ \E slice \in Slices : PushAll(slice)
  \/ \E len \in 0..MaxKey : Truncate(len)
  \/ \E len \in 0..MaxKey : Drain(len)
  \/ Clear
  \/ ShrinkToFit
  \/ \E n \in Capacities : EnlargeCapacityTo(n)

\* the calls that only read it
NextSetRead ==
  \/ \E id \in Keys : Contains(id)
  \/ \E index \in 0..MaxKey : AtIndex(index)
  \/ Min
  \/ Max

\* new() or with_capacity(n), then push, remove and pop
SpecBasic == InitBasic /\ [][NextBasic]_vars

\* new() or with_capacity(n), then the calls that keep the set well formed
SpecMut == InitBasic /\ [][NextSetKeep]_vars

\* a USet built by any constructor, then changed by any calls
SpecSet == InitSet /\ [][NextSetMut]_vars

\* a USet built by any constructor, then any calls
SpecSetAll == InitSet /\ [][NextSetMut \/ NextSetRead]_vars

\* from_range(a..b), then one call on the set it built
InitRange ==
  /\ kind = "USet"
  /\ \E a \in 0..MaxRangeEnd, b \in 0..MaxRangeEnd : set = USet_from_range(a, b)
  /\ last = Called("from_range", "")
  /\ map = UMap_new
  /\ res = EMPTY_SET
  /\ ret = None
  /\ history = TRUE
  /\ arg = <<>>
  /\ it = NoIter
  /\ operand = EMPTY_SET
  /\ panicked = FALSE

RangeKeys == 0..MaxRangeEnd

NextRange ==
  /\ last.op = "from_range"
  /\ \/ \E id \in RangeKeys : Push(id)
     \/ \E id \in RangeKeys : Remove(id)
     \/ \E id \in RangeKeys : Contains(id)

SpecRange == InitRange /\ [][NextRange]_vars

\* ------------------------------------------- the program, from_slice + iter
\* the slices handed to from_slice here: as long as there are keys
Vecs == UNION { [1..n -> Keys] : n \in 0..Cardinality(Keys) }

InitSlice ==
  /\ kind = "slice"
  /\ arg \in Vecs
  /\ set = USet_new
  /\ map = UMap_new
  /\ res = EMPTY_SET
  /\ ret = None
  /\ last = Called("", "")
  /\ history = TRUE
  /\ it = NoIter
  /\ operand = EMPTY_SET
  /\ panicked = FALSE

FromSlice ==
  /\ kind = "slice" /\ ~panicked
  /\ kind' = "USet"
  /\ set' = USet_from_slice(arg)
  /\ last' = Note("from_slice", "")
  /\ UNCHANGED <<map, operand, res, ret, history, arg, it, panicked>>

Iter ==
  /\ kind = "USet" /\ ~panicked
  /\ it' = [index |-> 0, rindex |-> 0, items |-> <<>>, back |-> <<>>,
            made |-> TRUE, live |-> TRUE]
  /\ last' = Note("iter", "")
  /\ UNCHANGED <<kind, set, map, operand, res, ret, history, arg, panicked>>

\* next(): `items` collects what it yields; `live` falls once a call on the
\* iterator has returned None
IterNext ==
  /\ kind = "USet" /\ ~panicked
  /\ it.made
  /\ LET n == USetIter_next(set, it.index, it.rindex) IN
       /\ it' = [it EXCEPT !.index = n.index,
                           !.items = IF n.ret = None THEN @ ELSE Append(@, n.ret[1]),
                           !.live = @ /\ n.ret # None]
       /\ ret' = n.ret
       /\ last' = Note("next", IF n.ret = None THEN "none" ELSE "some")
  /\ UNCHANGED <<kind, set, map, operand, res, history, arg, panicked>>

\* next_back(): `back` collects what it yields
IterNextBack ==
  /\ kind = "USet" /\ ~panicked
  /\ it.made
  /\ LET n == USetIter_next_back(set, it.index, it.rindex) IN
       /\ it' = [it EXCEPT !.rindex = n.rindex,
                           !.back = IF n.ret = None THEN @ ELSE Append(@, n.ret[1]),
                           !.live = @ /\ n.ret # None]
       /\ ret' = n.ret
       /\ last' = Note("next_back", IF n.ret = None THEN "none" ELSE "some")
  /\ UNCHANGED <<kind, set, map, operand, res, history, arg, panicked>>

\* from_slice(arg), then iteration from the front
SpecFromSlice == InitSlice /\ [][FromSlice \/ Iter \/ IterNext]_vars

\* ------------------------------------------- the program, set operations
\* the second operand of a set operation: a set any constructor builds
Operands == { c.s : c \in SetConstructed }

\* a call self.op(&b) that leaves self alone: it panics, or it hands back
\* the set `out` (union, difference, common_part, xor_set) or the answer
\* `answer` (is_subset_of, eq)
OperandCall(op, branch, b, panics, out, answer) ==
  /\ panicked' = panics
  /\ last' = Called(op, branch)
  /\ operand' = b
  /\ res' = IF panics THEN EMPTY_SET ELSE out
  /\ ret' = IF panics THEN None ELSE answer
  /\ UNCHANGED <<kind, set, map, history, arg, it>>

Union(b) ==
  /\ kind = "USet" /\ ~panicked
  /\ OperandCall("union", USet_union_branch(set, b), b,
                 USet_union_panics(set, b), USet_union(set, b), None)

Difference(b) ==
  /\ kind = "USet" /\ ~panicked
  /\ OperandCall("difference", USet_difference_branch(set, b), b,
                 USet_difference_panics(set, b), USet_difference(set, b), None)

CommonPart(b) ==
  /\ kind = "USet" /\ ~panicked
  /\ OperandCall("common_part", USet_common_part_branch(set, b), b,
                 USet_common_part_panics(set, b), USet_common_part(set, b), None)

XorSet(b) ==
  /\ kind = "USet" /\ ~panicked
  /\ OperandCall("xor_set", USet_xor_set_branch(set, b), b,
                 USet_xor_set_panics(set, b), USet_xor_set(set, b), None)

IsSubsetOf(b) ==
  /\ kind = "USet" /\ ~panicked
  /\ OperandCall("is_subset_of", "", b, USet_is_subset_of_panics(set, b),
                 EMPTY_SET, Some(USet_is_subset_of(set, b)))

\* a USet built by any constructor; the calls that change it are not recorded
InitOperands ==
  /\ kind = "USet"
  /\ set \in Operands
  /\ map = UMap_new
  /\ res = EMPTY_SET
  /\ ret = None
  /\ last = Called("", "")
  /\ history = FALSE
  /\ arg = <<>>
  /\ it = NoIter
  /\ operand = EMPTY_SET
  /\ panicked = FALSE

\* the second operand is a constructed set or the first operand itself
NextOperands ==
  \/ \E b \in Operands \cup {set} : Union(b)
  \/ \E b \in Operands \cup {set} : Difference(b)
  \/ \E b \in Operands \cup {set} : CommonPart(b)
  \/ \E b \in Operands \cup {set} : XorSet(b)
  \/ \E b \in Operands \cup {set} : IsSubsetOf(b)

\* the set is built first; a set operation leaves it alone and ends the run
NextBuildThenOperate == last.op = "" /\ (NextSetMut \/ NextOperands)

\* a USet built by any constructor and changed by any calls, then a set
\* operation with a second set
SpecOperands == InitOperands /\ [][NextBuildThenOperate]_vars

\* the set is built first; then one iterator over it (it borrows the set:
\* no call changes the set while it lives) is consumed from both ends in
\* any order
NextBuildThenIterate ==
  \/ it = NoIter /\ NextSetMut
  \/ it = NoIter /\ Iter
  \/ IterNext
  \/ IterNextBack

\* a USet built by any constructor and changed by any calls, then iterated
SpecIter == InitOperands /\ [][NextBuildThenIterate]_vars

\* the sets from_range builds
RangeSets == { USet_from_range(a, b) : a \in RangeKeys, b \in RangeKeys }

NextRangeOperands ==
  /\ last.op = "from_range"
  /\ \/ \E b \in RangeSets : Union(b)
     \/ \E b \in RangeSets : Difference(b)
     \/ \E b \in RangeSets : CommonPart(b)
     \/ \E b \in RangeSets : XorSet(b)
     \/ \E b \in RangeSets : IsSubsetOf(b)

\* from_range(a..b), then one set operation with another set from_range built
SpecRangeOperands == InitRange /\ [][NextRangeOperands]_vars

\* ------------------------------------------------ the program, two USets
\* a call on `set` while a second set, `operand`, is kept beside it
PairCall(op, branch, panics, after) ==
  /\ panicked' = panics
  /\ last' = Note(op, branch)
  /\ set' = IF panics THEN set ELSE after
  /\ res' = EMPTY_SET
  /\ ret' = None
  /\ UNCHANGED <<kind, map, operand, history, arg, it>>

PairPush(id) ==
  /\ kind = "USet" /\ ~panicked
  /\ PairCall("push", USet_push_branch(set, id), USet_push_panics(set, id),
              USet_push(set, id))

PairRemove(id) ==
  /\ kind = "USet" /\ ~panicked
  /\ PairCall("remove", USet_remove_branch(set, id), USet_remove_panics(set, id),
              USet_remove(set, id))

PairTruncate(len) ==
  /\ kind = "USet" /\ ~panicked
  /\ PairCall("truncate", USet_truncate_branch(set, len), FALSE, USet_truncate(set, len))

PairShrinkToFit ==
  /\ kind = "USet" /\ ~panicked
  /\ PairCall("shrink_to_fit", "", USet_shrink_to_fit_panics(set), USet_shrink_to_fit(set))

PairEnlargeCapacityTo(new_capacity) ==
  /\ kind = "USet" /\ ~panicked
  /\ PairCall("enlarge_capacity_to", USet_enlarge_capacity_to_branch(set, new_capacity), FALSE,
              USet_enlarge_capacity_to(set, new_capacity))

\* the program turns to its other set
Swap ==
  /\ kind = "USet" /\ ~panicked
  /\ set' = operand
  /\ operand' = set
  /\ last' = Note("swap", "")
  /\ res' = EMPTY_SET
  /\ ret' = None
  /\ UNCHANGED <<kind, map, history, arg, it, panicked>>

\* set == operand
Eq ==
  /\ kind = "USet" /\ ~panicked
  /\ OperandCall("eq", "", operand, USet_eq_panics(set, operand), EMPTY_SET,
                 Some(USet_eq(set, operand)))

\* two sets, each from new() or with_capacity(n)
InitPair ==
  /\ kind = "USet"
  /\ set \in {USet_new} \cup {USet_with_capacity(n) : n \in Capacities}
  /\ operand \in {USet_new} \cup {USet_with_capacity(n) : n \in Capacities}
  /\ map = UMap_new
  /\ res = EMPTY_SET
  /\ ret = None
  /\ last = Called("", "")
  /\ history = FALSE
  /\ arg = <<>>
  /\ it = NoIter
  /\ panicked = FALSE

NextPair ==
  \/ \E id \in Keys : PairPush(id)
  \/ \E id \in Keys : PairRemove(id)
  \/ \E len \in 0..MaxKey : PairTruncate(len)
  \/ PairShrinkToFit
  \/ \E n \in Capacities : PairEnlargeCapacityTo(n)
  \/ Swap
  \/ Eq

\* two USets, each built by its own calls, and their comparison
SpecPair == InitPair /\ [][NextPair]_vars

\* ------------------------------------------------------- the program, UMap
Values == 1..NumValues

MapIds == 0..MaxMapKey

\* slices of (key, value) pairs, in any order, duplicates allowed
PairSlices == UNION { [1..n -> MapIds \X Values] : n \in 0..MaxPairs }

\* slices of values
ValueSlices == UNION { [1..n -> Values] : n \in 0..MaxPairs }

\* the sets of keys handed to remove_all
IdSets == { USet_from_slice(slice) : slice \in UNION { [1..n -> MapIds] : n \in 0..MaxSliceLen } }

\* the maps from_slice builds from the pair slices
SliceMaps == { UMap_from_slice(slice) : slice \in PairSlices }

\* a call on the map: it faults, or it leaves one of `afters`, hands back
\* the collection `out` and returns one of `rets`. `faults` holds the
\* outcomes: {FALSE}, {TRUE}, or both where the behaviour is undefined.
MapCall(op, branch, faults, afters, out, rets) ==
  /\ panicked' \in faults
  /\ last' = Note(op, branch)
  /\ IF panicked'
     THEN map' = map /\ res' = UMap_new /\ ret' = None
     ELSE /\ map' \in afters
          /\ map'.len <= Cardinality(MapMembers(map')) + MaxDrift
          /\ res' = out
          /\ ret' \in rets
  /\ UNCHANGED <<kind, set, operand, history, arg, it>>

\* push_all adds slice.len() slots at every call: the largest buffer it may
\* grow the map to
MaxBuffer == INITIAL_CAPACITY

Faults(panics) == IF panics THEN {TRUE} ELSE {FALSE}

\* what a read outside the buffer may hand back
Garbage == {None} \cup { Some(v) : v \in Values }

MapPut(id, value) ==
  /\ kind = "UMap" /\ ~panicked
  /\ MapCall("put", UMap_put_branch(map, id),
             Faults(UMap_put_panics(map, id) \/ UMap_put_undefined(map, id)),
             {UMap_put(map, id, value)}, UMap_new, {None})

\* push and push_all hand back the ids they gave out
MapPushCall(value) ==
  /\ kind = "UMap" /\ ~panicked
  /\ MapCall("push", UMap_put_branch(map, push_id(map)),
             Faults(UMap_push_panics(map) \/ UMap_push_undefined(map)),
             {UMap_push(map, value)}, UMap_new, {Some(push_id(map))})

MapPush(value) == push_id(map) <= MaxMapKey /\ MapPushCall(value)

MapPushAllCall(slice) ==
  /\ kind = "UMap" /\ ~panicked
  /\ UMap_capacity(map) + Len(slice) <= MaxBuffer
  /\ MapCall("push_all", "", Faults(UMap_push_all_panics(map, slice)),
             {UMap_push_all(map, slice)}, UMap_new, {UMap_push_all_ret(map, slice)})

MapPushAll(slice) == map.max + Len(slice) <= MaxMapKey /\ MapPushAllCall(slice)

MapPutAll(slice) ==
  /\ kind = "UMap" /\ ~panicked
  /\ MapCall("put_all", UMap_put_all_branch(map, slice),
             Faults(UMap_put_all_panics(map, slice)),
             {UMap_put_all(map, slice)}, UMap_new, {None})

MapRemove(id) ==
  /\ kind = "UMap" /\ ~panicked
  /\ MapCall("remove", UMap_remove_branch(map, id), Faults(UMap_remove_panics(map, id)),
             {UMap_remove(map, id)}, UMap_new, {None})

MapRemoveAll(subset) ==
  /\ kind = "UMap" /\ ~panicked
  /\ MapCall("remove_all", "", Faults(UMap_remove_all_panics(map, subset)),
             {UMap_remove_all(map, subset)}, UMap_new, {None})

MapPop(index) ==
  /\ kind = "UMap" /\ ~panicked
  /\ MapCall("pop", IF UMap_at_index(map, index) = None THEN "none" ELSE "some",
             Faults(UMap_pop_panics(map, index)), {UMap_pop(map, index)}, UMap_new,
             {None})

MapTruncate(len) ==
  /\ kind = "UMap" /\ ~panicked
  /\ MapCall("truncate", UMap_truncate_branch(map, len), {FALSE},
             {UMap_truncate(map, len)}, UMap_new, {None})

MapDrain(len) ==
  /\ kind = "UMap" /\ ~panicked
  /\ MapCall("drain", UMap_truncate_branch(map, len), Faults(UMap_drain_panics(map, len)),
             {UMap_drain(map, len)}, UMap_drain_ret(map, len), {None})

MapClear ==
  /\ kind = "UMap" /\ ~panicked
  /\ MapCall("clear", UMap_truncate_branch(map, 0), {FALSE}, {UMap_clear(map)},
             UMap_new, {None})

MapShrinkToFit ==
  /\ kind = "UMap" /\ ~panicked
  /\ MapCall("shrink_to_fit", "",
             Faults(UMap_shrink_to_fit_panics(map) \/ UMap_shrink_to_fit_undefined(map)),
             {UMap_shrink_to_fit(map)}, UMap_new, {None})

MapEnlargeCapacityTo(new_capacity) ==
  /\ kind = "UMap" /\ ~panicked
  /\ MapCall("enlarge_capacity_to", "", {FALSE},
             {UMap_enlarge_capacity_to(map, new_capacity)}, UMap_new, {None})

MapReplace(id, value) ==
  /\ kind = "UMap" /\ ~panicked
  /\ MapCall("replace", IF UMap_get_undefined(map, id) THEN "out_of_buffer" ELSE "",
             IF UMap_get_undefined(map, id) THEN BOOLEAN
             ELSE Faults(UMap_replace_panics(map, id)),
             UMap_replace(map, id, value), UMap_new, {None})

MapReplaceAll(other) ==
  /\ kind = "UMap" /\ ~panicked
  /\ MapCall("replace_all", UMap_replace_all_branch(map, other),
             IF UMap_replace_all_undefined(map, other) THEN BOOLEAN
             ELSE Faults(UMap_replace_all_panics(map, other)),
             UMap_replace_all(map, other), UMap_new, {None})

MapGet(id) ==
  /\ kind = "UMap" /\ ~panicked
  /\ MapCall("get", IF UMap_get_undefined(map, id) THEN "out_of_buffer" ELSE "",
             IF UMap_get_undefined(map, id) THEN BOOLEAN ELSE {FALSE},
             {map}, UMap_new,
             IF UMap_get_undefined(map, id) THEN Garbage ELSE {UMap_get(map, id)})

MapGetRef(id) ==
  /\ kind = "UMap" /\ ~panicked
  /\ MapCall("get_ref", IF UMap_get_undefined(map, id) THEN "out_of_buffer" ELSE "",
             IF UMap_get_undefined(map, id) THEN BOOLEAN ELSE {FALSE},
             {map}, UMap_new,
             IF UMap_get_undefined(map, id) THEN Garbage ELSE {UMap_get_ref(map, id)})

MapGetRefMut(id) ==
  /\ kind = "UMap" /\ ~panicked
  /\ MapCall("get_ref_mut", IF UMap_get_undefined(map, id) THEN "out_of_buffer" ELSE "",
             IF UMap_get_undefined(map, id) THEN BOOLEAN ELSE {FALSE},
             {map}, UMap_new,
             IF UMap_get_undefined(map, id) THEN Garbage ELSE {UMap_get_ref_mut(map, id)})

MapContains(id) ==
  /\ kind = "UMap" /\ ~panicked
  /\ MapCall("contains", "", Faults(UMap_contains_panics(map, id)), {map}, UMap_new,
             {None})

MapKeys ==
  /\ kind = "UMap" /\ ~panicked
  /\ MapCall("keys", "", Faults(UMap_keys_panics(map)), {map}, UMap_keys(map), {None})

\* every way to construct a UMap
MapConstructed ==
  [op : {"with_capacity"}, m : {UMap_with_capacity(n) : n \in Capacities}]
  \cup [op : {"from_slice"}, m : SliceMaps]

InitMap ==
  /\ kind = "UMap"
  /\ \E c \in MapConstructed :
       /\ map = c.m
       /\ last = Called(c.op, "")
  /\ set = USet_new
  /\ res = UMap_new
  /\ ret = None
  /\ history = TRUE
  /\ arg = <<>>
  /\ it = NoIter
  /\ operand = EMPTY_SET
  /\ panicked = FALSE

\* every call that changes the map
NextMapMut ==
  \/ \E id \in MapIds, value \in Values : MapPut(id, value)
  \/ \E value \in Values : MapPush(value)
  \/ \E slice \in ValueSlices : MapPushAll(slice)
  \/ \E slice \in PairSlices : MapPutAll(slice)
  \/ \E id \in MapIds : MapRemove(id)
  \/ \E subset \in IdSets : MapRemoveAll(subset)
  \/ \E index \in 0..MaxMapKey : MapPop(index)
  \/ \E len \in 0..MaxMapKey : MapTruncate(len)
  \/ \E len \in 0..MaxMapKey : MapDrain(len)
  \/ MapClear
  \/ MapShrinkToFit
  \/ \E n \in Capacities : MapEnlargeCapacityTo(n)
  \/ \E id \in MapIds, value \in Values : MapReplace(id, value)
  \/ \E other \in SliceMaps : MapReplaceAll(other)

\* the calls that only read it
NextMapRead ==
  \/ \E id \in MapIds : MapGet(id)
  \/ \E id \in MapIds : MapGetRef(id)
  \/ \E id \in MapIds : MapGetRefMut(id)
  \/ \E id \in MapIds : MapContains(id)
  \/ MapKeys

\* a UMap built by new, with_capacity or from_slice, then any calls
SpecMap == InitMap /\ [][NextMapMut \/ NextMapRead]_vars

\* slices of values for the program of pushes
PushSlices == UNION { [1..n -> Values] : n \in 0..MaxPushed }

\* a program that lets push and push_all run further up than the others
NextPush ==
  \/ \E value \in Values : push_id(map) <= MaxPushKey /\ MapPushCall(value)
  \/ \E slice \in PushSlices : map.max + Len(slice) <= MaxPushKey /\ MapPushAllCall(slice)
  \/ \E id \in MapIds, value \in Values : MapPut(id, value)
  \/ \E slice \in PairSlices : MapPutAll(slice)
  \/ \E id \in MapIds : MapRemove(id)
  \/ \E len \in 0..MaxMapKey : MapTruncate(len)

SpecPush == InitMap /\ [][NextPush]_vars

\* ------------------------------------------- the program: join, submap, query
\* the maps from_slice builds from up to MaxJoinPairs pairs, with_capacity(n),
\* and those maps with one key removed
JoinPairSlices ==
  UNION { [1..n -> (0..MaxJoinKey) \X Values] : n \in 0..MaxJoinPairs }

JoinBuilt ==
  { UMap_from_slice(slice) : slice \in JoinPairSlices }
    \cup { UMap_with_capacity(n) : n \in Capacities }

JoinOperands ==
  JoinBuilt \cup { UMap_remove(m, id) :
                    m \in { b \in JoinBuilt : ~UMap_is_empty(b) }, id \in 0..MaxJoinKey }

\* a predicate on values is the set of values it accepts
Predicates == SUBSET Values

\* a call self.op(..) that leaves self alone: it faults, or it hands back the
\* collection `out`
MapOperandCall(op, branch, faults, out) ==
  /\ panicked' \in faults
  /\ last' = Called(op, branch)
  /\ res' = IF panicked' THEN UMap_new ELSE out
  /\ ret' = None
  /\ UNCHANGED <<kind, set, map, operand, history, arg, it>>

Join(other) ==
  /\ kind = "UMap" /\ ~panicked
  /\ MapOperandCall("join", UMap_join_branch(map, other),
                    Faults(UMap_join_panics(map, other)), UMap_join(map, other))

Submap(subset) ==
  /\ kind = "UMap" /\ ~panicked
  /\ MapOperandCall("submap", IF UMap_submap_undefined(map, subset) THEN "out_of_buffer" ELSE "",
                    IF UMap_submap_undefined(map, subset) THEN BOOLEAN
                    ELSE Faults(UMap_submap_panics(map, subset)),
                    UMap_submap(map, subset))

Query(accepted) ==
  /\ kind = "UMap" /\ ~panicked
  /\ MapOperandCall("query", IF UMap_query_undefined(map) THEN "out_of_buffer" ELSE "",
                    IF UMap_query_undefined(map) THEN BOOLEAN
                    ELSE Faults(UMap_query_panics(map)),
                    UMap_query(map, accepted))

InitJoin ==
  /\ kind = "UMap"
  /\ map \in JoinBuilt
  /\ set = USet_new
  /\ res = UMap_new
  /\ ret = None
  /\ last = Called("", "")
  /\ history = FALSE
  /\ arg = <<>>
  /\ it = NoIter
  /\ operand = EMPTY_SET
  /\ panicked = FALSE

\* the map is built and changed first; then one call hands back a collection
NextJoin ==
  \/ /\ last.op = ""
     /\ \/ \E id \in MapIds, value \in Values : MapPut(id, value)
        \/ \E id \in MapIds : MapRemove(id)
        \/ \E slice \in PairSlices : MapPutAll(slice)
        \/ \E len \in 0..MaxMapKey : MapTruncate(len)
  \/ last.op = "" /\ \E other \in JoinOperands \cup {map} : Join(other)
  \/ last.op = "" /\ \E subset \in SliceSets : Submap(subset)
  \/ last.op = "" /\ \E accepted \in Predicates : Query(accepted)

SpecJoin == InitJoin /\ [][NextJoin]_vars

\* the largest key of the program that keeps a map well formed
MaxKeptKey == 2

KeptIds == 0..MaxKeptKey

\* UMap::new() or UMap::with_capacity(n)
InitMapBasic ==
  /\ kind = "UMap"
  /\ map \in {UMap_new} \cup {UMap_with_capacity(n) : n \in Capacities}
  /\ set = USet_new
  /\ res = UMap_new
  /\ ret = None
  /\ history = TRUE
  /\ arg = <<>>
  /\ it = NoIter
  /\ operand = EMPTY_SET
  /\ last = Called("with_capacity", "")
  /\ panicked = FALSE

NextMapKeep ==
  \/ \E id \in KeptIds, value \in Values : MapPut(id, value)
  \/ \E value \in Values : push_id(map) <= MaxKeptKey /\ MapPushCall(value)
  \/ \E id \in KeptIds, value \in Values : MapReplace(id, value)
  \/ \E id \in KeptIds : MapRemove(id)
  \/ \E index \in 0..MaxKeptKey : MapPop(index)
  \/ \E len \in 0..MaxKeptKey : MapTruncate(len)
  \/ \E len \in 0..MaxKeptKey : MapDrain(len)
  \/ MapClear

\* new() or with_capacity(n), then put, push, replace, remove, pop,
\* truncate, drain and clear
SpecMapMut == InitMapBasic /\ [][NextMapKeep]_vars

\* a USet or a UMap built by any constructor
InitAny == InitSet \/ InitMap

\* the same, in a program that keeps no history
InitCanon ==
  /\ \/ /\ kind = "USet"
        /\ set \in { c.s : c \in SetConstructed }
        /\ map = UMap_new
     \/ /\ kind = "UMap"
        /\ map \in { c.m : c \in MapConstructed }
        /\ set = USet_new
  /\ res = EMPTY_SET
  /\ ret = None
  /\ last = Called("", "")
  /\ history = FALSE
  /\ arg = <<>>
  /\ it = NoIter
  /\ operand = EMPTY_SET
  /\ panicked = FALSE

NextMut == NextSetMut \/ NextMapMut

\* a USet or a UMap built by any constructor, then changed by any calls
SpecCanon == InitCanon /\ [][NextMut]_vars

\* either collection, any constructor, any calls
Init == InitAny

Next == NextSetMut \/ NextSetRead \/ NextMapMut \/ NextMapRead

Spec == Init /\ [][Next]_vars

\* ---------------------------------------------------------------- claims

\* C1: from new() or with_capacity(n), after any sequence of push, remove
\* and pop, min() is the smallest key the set holds and max() the largest,
\* and both are None exactly when the set holds no key.
C1_MinMaxAreBounds ==
  LET M == Members(set) IN
    /\ (M = {}) <=> (USet_min(set) = None)
    /\ (M = {}) <=> (USet_max(set) = None)
    /\ M # {} => USet_min(set) = Some(SetMin(M)) /\ USet_max(set) = Some(SetMax(M))

\* a removal of the minimum that moved min over a gap
C1_Witness ==
  /\ last.op = "remove" /\ last.branch = "min" /\ ~panicked
  /\ set.offset + 1 < set.min

\* the invariants of a non-empty collection
WellFormed(s) ==
  s.len > 0 =>
    /\ s.offset <= s.min /\ s.min <= s.max /\ s.max < s.offset + Len(s.vec)
    /\ At(s.vec, s.min - s.offset)
    /\ At(s.vec, s.max - s.offset)
    /\ s.len = Cardinality(Members(s))
    /\ \A k \in Members(s) : s.min <= k /\ k <= s.max

C3_PushAddsKey ==
  [][\A id \in RangeKeys :
       (last'.op = "push" /\ Push(id) /\ ~USet_contains_panics(set, id) /\ ~USet_contains(set, id)) =>
         /\ ~panicked'
         /\ ~USet_contains_panics(set', id) /\ USet_contains(set', id)
         /\ set'.len = set.len + 1]_vars

\* C4: for a reachable USet S and a key k in S, after S.remove(k) the call
\* S.contains(k) returns false and S.len() is one smaller than before.
C4_RemoveDropsKey ==
  [][\A id \in Keys :
       (last'.op = "remove" /\ Remove(id) /\ ~USet_contains_panics(set, id) /\ USet_contains(set, id)) =>
         /\ ~panicked'
         /\ ~USet_contains_panics(set', id) /\ ~USet_contains(set', id)
         /\ set'.len = set.len - 1]_vars

\* a removal of the maximum that left a set with room below its minimum
C4_Witness ==
  /\ last.op = "remove" /\ last.branch = "max" /\ ~panicked
  /\ set.len > 0
  /\ set.offset < set.min

\* C5: on every reachable USet, an empty one without capacity included, and
\* for every key and index, contains, remove, pop, at_index, min and max
\* return without indexing outside the buffer; contains of a key the set does
\* not hold is false and remove of such a key leaves the set as it was.
C5_NoIndexOutsideBuffer ==
  [][kind = "USet" =>
       /\ last'.op \in {"contains", "remove", "pop", "at_index", "min", "max"}
            => ~panicked'
       /\ \A id \in Keys :
            (last'.op = "remove" /\ Remove(id) /\ id \notin Members(set)) => set' = set
       /\ \A id \in Keys :
            (last'.op = "contains" /\ Contains(id) /\ id \notin Members(set))
              => ~USet_contains(set, id)]_vars

\* C6: on every reachable UMap, an empty one without capacity included, and
\* for every key, get, get_ref and get_ref_mut read no slot outside the
\* buffer, and return None when the map holds no value under the key.
C6_GetStaysInBuffer ==
  [][\A id \in MapIds :
       (/\ last'.op \in {"get", "get_ref", "get_ref_mut"}
        /\ (MapGet(id) \/ MapGetRef(id) \/ MapGetRefMut(id))) =>
         /\ ~UMap_get_undefined(map, id)
         /\ ~panicked'
         /\ id \notin MapMembers(map) => ret' = None]_vars

\* C7: for a reachable UMap M, a key k and a value v, also when M holds
\* another value under k, after M.put(k, v) the call M.get(k) returns v.
C7_PutThenGet ==
  [][\A id \in MapIds, value \in Values :
       (last'.op = "put" /\ MapPut(id, value)) =>
         /\ ~panicked'
         /\ ~UMap_get_undefined(map', id)
         /\ UMap_get(map', id) = Some(value)]_vars

\* C8: on every reachable UMap, an empty one that still has capacity
\* included, keys() returns without fault a USet that holds exactly the keys
\* under which the map holds a value.
C8_KeysOfAnyMap ==
  (kind = "UMap" /\ last.op = "keys") =>
    /\ ~panicked
    /\ Members(res) = MapMembers(map)
    /\ \A id \in MapMembers(map) : USet_contains(res, id)

\* an empty collection is in the canonical state
Canonical(c) == c.len = 0 => c.offset = 0 /\ c.min = 0 /\ c.max = 0

\* C9: in every USet and UMap reached from any constructor by any mutating
\* calls (the collection itself and the one drain returns), len = 0 implies
\* offset = min = max = 0, and the empty collection compares equal to a
\* fresh one of any capacity.
C9_CanonicalEmpty ==
  /\ Canonical(set) /\ Canonical(map) /\ Canonical(res)
  /\ (kind = "USet" /\ set.len = 0) =>
       \A n \in Capacities : USet_eq(set, USet_with_capacity(n))
  /\ (kind = "USet" /\ res.len = 0) =>
       \A n \in Capacities : USet_eq(res, USet_with_capacity(n))
  /\ (kind = "UMap" /\ map.len = 0) =>
       \A n \in Capacities : UMap_eq(map, UMap_with_capacity(n))
  /\ (kind = "UMap" /\ res.len = 0) =>
       \A n \in Capacities : UMap_eq(res, UMap_with_capacity(n))

\* a map that held values in a buffer of the initial capacity, emptied
C9_Witness ==
  /\ kind = "UMap" /\ ~panicked
  /\ map.len = 0
  /\ UMap_capacity(map) = INITIAL_CAPACITY

\* the slice holds no key twice
NoDup(slice) == Cardinality({ slice[i] : i \in 1..Len(slice) }) = Len(slice)

\* the keys of S, ascending
RECURSIVE Ascending(_)
Ascending(S) == IF S = {} THEN <<>> ELSE <<SetMin(S)>> \o Ascending(S \ {SetMin(S)})

\* C10: for a slice V that holds no key twice, in any order, the iterator of
\* USet::from_slice(V) yields from the front exactly the keys of V in
\* ascending order, and the set's len() is the number of keys of V.
C10_FromSliceSorted ==
  (kind = "USet" /\ NoDup(arg)) =>
    /\ USet_len(set) = Len(arg)
    /\ (last.op = "next" /\ ~it.live) =>
         it.items = Ascending({ arg[i] : i \in 1..Len(arg) })

\* an iteration that ran to its end over a set built from an unsorted slice
C10_Witness ==
  /\ kind = "USet" /\ last.op = "next" /\ ~it.live
  /\ NoDup(arg) /\ Len(arg) = 3
  /\ arg[1] > arg[2] /\ arg[3] > 0
  /\ Len(it.items) = 3

\* ------------------------------------------------------------ C11
\* the keys of a slice
SliceKeys(slice) == { slice[i] : i \in 1..Len(slice) }

\* the slice without its repeated keys, first occurrences kept in order
RECURSIVE Dedup(_)
Dedup(slice) ==
  IF slice = <<>> THEN <<>>
  ELSE LET front == Dedup(SubSeq(slice, 1, Len(slice) - 1))
           x == slice[Len(slice)]
       IN IF x \in SliceKeys(front) THEN front ELSE Append(front, x)

\* C11: the set from_slice builds from a slice with repeated keys has as
\* many elements (len) as the slice has distinct keys, and is equal to the
\* set built from the slice without the repetitions.
C11_DuplicatesCollapse ==
  kind = "USet" =>
    /\ USet_len(set) = Cardinality(SliceKeys(arg))
    /\ ~USet_eq_panics(set, USet_from_slice(Dedup(arg)))
    /\ USet_eq(set, USet_from_slice(Dedup(arg)))

\* ------------------------------------------------------------ C12
\* the keys contains() answers true for, without a fault
Contained(s) ==
  { id \in 0..(MaxRangeEnd + 1) : ~USet_contains_panics(s, id) /\ USet_contains(s, id) }

\* C12: for a < b the set from_range(a..b) builds contains exactly the keys
\* a..b-1, its len() is b - a, min() is Some(a), max() is Some(b - 1), and
\* contains(k) returns without a fault for every k, k = b included.
C12_FromRange ==
  \A a \in RangeKeys, b \in RangeKeys :
    (a < b /\ last.op = "from_range" /\ set = USet_from_range(a, b)) =>
      /\ \A k \in RangeKeys : ~USet_contains_panics(set, k)
      /\ Contained(set) = a..(b - 1)
      /\ USet_len(set) = b - a
      /\ USet_min(set) = Some(a)
      /\ USet_max(set) = Some(b - 1)

\* ------------------------------------------------------------ C13
\* C13: push_all(slice) on any set a program can build does what push(v)
\* for every v of the slice, in order, does: it faults only where the
\* pushes do, and the two sets are equal and agree on len(), min(), max()
\* and on their members.
C13_PushAllIsPushEach ==
  [][\A slice \in Slices :
       (last'.op = "push_all" /\ PushAll(slice)) =>
         /\ panicked' = push_each_panics(set, slice)
         /\ ~panicked' =>
              LET pushed == push_each(set, slice) IN
                /\ ~USet_eq_panics(set', pushed) /\ USet_eq(set', pushed)
                /\ USet_len(set') = USet_len(pushed)
                /\ USet_min(set') = USet_min(pushed)
                /\ USet_max(set') = USet_max(pushed)
                /\ Members(set') = Members(pushed)]_vars

\* ------------------------------------------------------------ C14
\* the minima and the maxima of the operands that have any
OperandMinima(a, b) ==
  { USet_min(x)[1] : x \in { y \in {a, b} : USet_min(y) # None } }

OperandMaxima(a, b) ==
  { USet_max(x)[1] : x \in { y \in {a, b} : USet_max(y) # None } }

\* C14: the union A + B contains a key iff A or B contains it, its len()
\* is the number of these keys, and when it is not empty its min() is the
\* smaller of the operands' minima and its max() the larger of their maxima.
C14_Union ==
  last.op = "union" =>
    /\ ~panicked
    /\ Contained(res) = Contained(set) \cup Contained(operand)
    /\ USet_len(res) = Cardinality(Contained(set) \cup Contained(operand))
    /\ ~USet_is_empty(res) =>
         /\ USet_min(res) = Some(SetMin(OperandMinima(set, operand)))
         /\ USet_max(res) = Some(SetMax(OperandMaxima(set, operand)))

\* ------------------------------------------------------------ C15
\* what a set operation has to hand back for the keys `keys`: a set that
\* contains them and no other, whose len() is their number and whose min()
\* and max() are the smallest and the largest of them
HoldsExactly(s, keys) ==
  /\ Contained(s) = keys
  /\ USet_len(s) = Cardinality(keys)
  /\ USet_min(s) = (IF keys = {} THEN None ELSE Some(SetMin(keys)))
  /\ USet_max(s) = (IF keys = {} THEN None ELSE Some(SetMax(keys)))

\* C15: the difference A - B returns without a fault, also for A a fresh
\* empty set and B holding key 0; it contains a key iff A contains it and B
\* does not, len() is the number of these keys, min() and max() are the
\* smallest and the largest of them, and it is the canonical empty set when
\* there is none.
C15_Difference ==
  last.op = "difference" =>
    /\ ~panicked
    /\ HoldsExactly(res, Contained(set) \ Contained(operand))
    /\ (Contained(set) \ Contained(operand) = {}) => res = EMPTY_SET

\* ------------------------------------------------------------ C16
\* C16: the intersection A * B contains a key iff A and B both contain it,
\* len() is the number of these keys, min() and max() are the smallest and
\* the largest of them, and it is the empty set when the operands share no
\* key.
C16_CommonPart ==
  last.op = "common_part" =>
    /\ ~panicked
    /\ HoldsExactly(res, Contained(set) \cap Contained(operand))
    /\ (Contained(set) \cap Contained(operand) = {}) =>
         USet_is_empty(res) /\ USet_eq(res, USet_new)

\* ------------------------------------------------------------ C17
\* the keys exactly one of the two sets contains
OneOf(a, b) == (Contained(a) \ Contained(b)) \cup (Contained(b) \ Contained(a))

\* C17: the symmetric difference A ^ B contains a key iff exactly one of A
\* and B contains it, len() is the number of these keys, min() and max()
\* are the smallest and the largest of them, and it is the empty set when A
\* and B have the same members.
C17_XorSet ==
  last.op = "xor_set" =>
    /\ ~panicked
    /\ HoldsExactly(res, OneOf(set, operand))
    /\ (Contained(set) = Contained(operand)) =>
         USet_is_empty(res) /\ USet_eq(res, USet_new)

\* ------------------------------------------------------------ C18
\* a == b of the source returns true
Equal(a, b) == ~USet_eq_panics(a, b) /\ USet_eq(a, b)

\* C18: with E = USet::new(), A + E == A, E + A == A, A - E == A and
\* A ^ E == A for every set A a program can build, A empty included.
C18_EmptyIsIdentity ==
  /\ (last.op \in {"union", "difference", "xor_set"} /\ operand = USet_new) =>
       ~panicked /\ Equal(res, set)
  /\ (last.op = "union" /\ set = USet_new) =>
       ~panicked /\ Equal(res, operand)

\* ------------------------------------------------------------ C19
\* C19: A + A == A, A * A == A, A - A == USet::new() and
\* A ^ A == USet::new() for every set A a program can build.
C19_SelfOperations ==
  /\ (last.op \in {"union", "common_part"} /\ operand = set) =>
       ~panicked /\ Equal(res, set)
  /\ (last.op \in {"difference", "xor_set"} /\ operand = set) =>
       ~panicked /\ Equal(res, USet_new)

\* ------------------------------------------------------------ C20
\* C20: A.is_subset_of(B) returns true iff every key A contains B contains;
\* the empty set is a subset of every set and every set is a subset of
\* itself.
C20_IsSubsetOf ==
  last.op = "is_subset_of" =>
    /\ ~panicked
    /\ ret = Some(Contained(set) \subseteq Contained(operand))

\* ------------------------------------------------------------ C21
\* C21: two sets built from new() or with_capacity(n) by push, remove,
\* truncate, shrink_to_fit and enlarge_capacity_to compare equal iff they
\* contain the same keys, whatever their offsets, capacities and the slots
\* outside [min, max].
C21_EqualIffSameKeys ==
  last.op = "eq" =>
    /\ ~panicked
    /\ ret = Some(Contained(set) = Contained(operand))

\* two equal non-empty sets whose buffers start at different keys and differ
\* in size
C21_Witness ==
  /\ last.op = "eq" /\ ret = Some(TRUE)
  /\ set.len > 1
  /\ set.offset # operand.offset
  /\ Len(set.vec) # Len(operand.vec)

\* ------------------------------------------------------------ C22
\* the keys a sequence holds
Yielded(items) == { items[i] : i \in 1..Len(items) }

StrictlyAscending(items) == \A i \in 1..(Len(items) - 1) : items[i] < items[i + 1]

StrictlyDescending(items) == \A i \in 1..(Len(items) - 1) : items[i] > items[i + 1]

\* C22: a fresh iter() consumed with next() alone yields keys the set
\* contains, in strictly ascending order; when it has returned None it has
\* yielded every contained key, len() keys in all, and the next call
\* returns None again.
C22_IterAscending ==
  (it.made /\ it.rindex = 0) =>
    /\ StrictlyAscending(it.items)
    /\ Yielded(it.items) \subseteq Contained(set)
    /\ ~it.live =>
         /\ Yielded(it.items) = Contained(set)
         /\ Len(it.items) = USet_len(set)
         /\ USetIter_next(set, it.index, it.rindex).ret = None

\* ------------------------------------------------------------ C23
\* C23: under every interleaving of next() and next_back() on one iterator
\* the cursors never cross: no key is yielded twice, every key next()
\* yielded is smaller than every key next_back() yielded, next_back()
\* yields in strictly descending order, and once a call has returned None
\* the keys yielded are exactly the keys the set contains.
C23_CursorsNeverCross ==
  it.made =>
    /\ it.index + it.rindex <= USet_capacity(set)
    /\ StrictlyAscending(it.items)
    /\ StrictlyDescending(it.back)
    /\ \A a \in Yielded(it.items), b \in Yielded(it.back) : a < b
    /\ ~it.live =>
         /\ Yielded(it.items) \cup Yielded(it.back) = Contained(set)
         /\ USetIter_next(set, it.index, it.rindex).ret = None
         /\ USetIter_next_back(set, it.index, it.rindex).ret = None

\* ------------------------------------------------------------ C24
\* C24: at_index(i) is the i-th smallest contained key when i < len() and
\* None when i >= len(); pop(i) hands back what at_index(i) does, and when
\* that is Some(k) the set no longer contains k afterwards and len() is one
\* smaller, while for i >= len() pop(i) leaves the set as it was.
C24_AtIndexAndPop ==
  [][\A i \in 0..MaxKey :
       (last'.op = "pop" /\ Pop(i)) =>
         LET keys == Ascending(Contained(set))
             d == USet_at_index(set, i)
         IN /\ ~panicked'
            /\ IF i < USet_len(set)
               THEN i < Len(keys) /\ d = Some(keys[i + 1])
               ELSE d = None /\ set' = set
            /\ d # None =>
                 /\ ~USet_contains_panics(set', d[1]) /\ ~USet_contains(set', d[1])
                 /\ USet_len(set') = USet_len(set) - 1]_vars

\* ------------------------------------------------------------ C25
\* an empty set in the canonical state
CanonicalEmpty(s) ==
  USet_is_empty(s) /\ Contained(s) = {} /\ s.offset = 0 /\ s.min = 0 /\ s.max = 0

\* what truncate(n) has to leave of the set `old`
Truncated(old, new, n) ==
  LET keys == Ascending(Contained(old)) IN
    /\ USet_capacity(new) = USet_capacity(old)
    /\ IF n = 0 THEN CanonicalEmpty(new)
       ELSE IF n >= USet_len(old) THEN new = old
       ELSE /\ n <= Len(keys)
            /\ Contained(new) = { keys[i] : i \in 1..n }
            /\ USet_len(new) = n
            /\ USet_min(new) = USet_min(old)
            /\ USet_max(new) = Some(keys[n])

\* C25: truncate(n) with 0 < n < len() leaves exactly the n smallest keys,
\* len() = n, min() as it was and max() the n-th smallest key; with
\* n >= len() it changes nothing; truncate(0) and clear() leave the set
\* empty in the canonical state; capacity() never changes.
C25_Truncate ==
  [][/\ \A n \in 0..MaxKey :
          (last'.op = "truncate" /\ Truncate(n)) => ~panicked' /\ Truncated(set, set', n)
     /\ (last'.op = "clear" /\ Clear) => ~panicked' /\ Truncated(set, set', 0)]_vars

\* ------------------------------------------------------------ C26
\* what drain(n) has to leave (new) and hand back (out) of the set `old`
Drained(old, new, out, n) ==
  /\ Contained(new) = Contained(USet_truncate(old, n))
  /\ USet_len(new) = USet_len(USet_truncate(old, n))
  /\ Contained(out) = Contained(old) \ Contained(new)
  /\ \A a \in Contained(new), b \in Contained(out) : a < b
  /\ Contained(new) \cap Contained(out) = {}
  /\ Contained(new) \cup Contained(out) = Contained(old)
  /\ n >= USet_len(old) => USet_is_empty(out) /\ new = old
  /\ n = 0 => Contained(out) = Contained(old) /\ USet_len(out) = USet_len(old) /\ USet_is_empty(new)

\* C26: drain(n) splits the set and loses or doubles no key: the set is
\* left as truncate(n) would leave it, the returned set holds exactly the
\* keys taken out, all greater than the keys left, the two are disjoint and
\* together hold the former keys; for n >= len() the returned set is empty
\* and the set unchanged, for n = 0 the returned set equals the former set
\* and the set is empty.
C26_Drain ==
  [][\A n \in 0..MaxKey :
       (last'.op = "drain" /\ Drain(n)) => ~panicked' /\ Drained(set, set', res', n)]_vars

\* ------------------------------------------------------------ C27
\* C27: shrink_to_fit changes neither the keys contained nor len(), min()
\* and max(); afterwards a non-empty set has offset = min and
\* capacity() = max - min + 1, and an empty set has capacity() = 0.
C27_ShrinkToFit ==
  [][(last'.op = "shrink_to_fit" /\ ShrinkToFit) =>
       /\ ~panicked'
       /\ Contained(set') = Contained(set)
       /\ USet_len(set') = USet_len(set)
       /\ USet_min(set') = USet_min(set)
       /\ USet_max(set') = USet_max(set)
       /\ ~USet_is_empty(set') =>
            /\ USet_min(set') = Some(set'.offset)
            /\ USet_capacity(set') = set'.max - set'.min + 1
       /\ USet_is_empty(set') => USet_capacity(set') = 0]_vars

\* ------------------------------------------------------------ C28
\* C28: enlarge_capacity_to(n) sets capacity() to the larger of n and the
\* former capacity and changes nothing else (keys contained, len, min, max,
\* offset); a push(id) with offset <= id <= offset + capacity - 1 on a
\* non-empty set, right after it or later, leaves capacity() and offset
\* as they are.
C28_EnlargeCapacityTo ==
  [][/\ \A n \in Capacities :
          (last'.op = "enlarge_capacity_to" /\ EnlargeCapacityTo(n)) =>
            /\ ~panicked'
            /\ USet_capacity(set') = Max2(n, USet_capacity(set))
            /\ Contained(set') = Contained(set)
            /\ Members(set') = Members(set)
            /\ set'.len = set.len /\ set'.min = set.min
            /\ set'.max = set.max /\ set'.offset = set.offset
     /\ \A id \in Keys :
          ( /\ last'.op = "push" /\ Push(id)
            /\ ~USet_is_empty(set)
            /\ set.offset <= id /\ id <= set.offset + USet_capacity(set) - 1 ) =>
            /\ ~panicked'
            /\ USet_capacity(set') = USet_capacity(set)
            /\ set'.offset = set.offset]_vars

\* a non-empty set just enlarged, with a free slot above its greatest key
C28_Witness ==
  /\ kind = "USet" /\ ~panicked
  /\ last = Called("enlarge_capacity_to", "resize")
  /\ ~USet_is_empty(set)
  /\ set.max < set.offset + USet_capacity(set) - 1

\* ------------------------------------------------------------ C29
\* is_empty() of the collection the program holds
IsEmptyOf(k, s, m) == IF k = "USet" THEN USet_is_empty(s) ELSE UMap_is_empty(m)

\* a step that inserts a key: push, put, push_all / put_all with a non-empty
\* input, replace
InsertStep ==
  \/ \E id \in Keys : Push(id)
  \/ \E slice \in Slices \ {<<>>} : PushAll(slice)
  \/ \E id \in MapIds, value \in Values : MapPut(id, value)
  \/ \E value \in Values : MapPush(value)
  \/ \E slice \in ValueSlices \ {<<>>} : MapPushAll(slice)
  \/ \E slice \in PairSlices \ {<<>>} : MapPutAll(slice)
  \/ \E id \in MapIds, value \in Values : MapReplace(id, value)

\* replace_all with a non-empty map
ReplaceAllStep == \E other \in SliceMaps : ~UMap_is_empty(other) /\ MapReplaceAll(other)

\* a step that removes keys: remove, pop, remove_all, truncate(0), clear,
\* drain(0)
RemoveStep ==
  \/ \E id \in Keys : Remove(id)
  \/ \E index \in 0..MaxKey : Pop(index)
  \/ \E other \in SliceSets : RemoveAll(other)
  \/ Truncate(0) \/ Drain(0) \/ Clear
  \/ \E id \in MapIds : MapRemove(id)
  \/ \E index \in 0..MaxMapKey : MapPop(index)
  \/ \E subset \in IdSets : MapRemoveAll(subset)
  \/ MapTruncate(0) \/ MapDrain(0) \/ MapClear

\* shrink_to_fit, enlarge_capacity_to, truncate(n) and drain(n) with n > 0,
\* and the calls that only read
KeepStep ==
  \/ ShrinkToFit \/ MapShrinkToFit
  \/ \E n \in Capacities : EnlargeCapacityTo(n) \/ MapEnlargeCapacityTo(n)
  \/ \E n \in 1..MaxKey : Truncate(n) \/ Drain(n)
  \/ \E n \in 1..MaxMapKey : MapTruncate(n) \/ MapDrain(n)
  \/ NextSetRead \/ NextMapRead

PushIds == 0..(MaxPushKey + 1)

\* get(id) returns, and returns the value `answer`
Gets(m, id, answer) == ~UMap_get_undefined(m, id) /\ UMap_get(m, id) = answer

\* the keys under which get returns a value
Held(m) == { id \in PushIds : ~UMap_get_undefined(m, id) /\ UMap_get(m, id) # None }

\* `new` is `old` with the values pushed under the ids `ids`, which are
\* fresh, above every key of `old` and consecutive
Pushed(old, new, ids, values) ==
  /\ Len(ids) = Len(values)
  /\ \A i \in 1..Len(ids) :
       /\ ids[i] \notin Held(old)
       /\ \A id \in Held(old) : id < ids[i]
       /\ Gets(new, ids[i], Some(values[i]))
       /\ i > 1 => ids[i] = ids[i - 1] + 1
  /\ (ids # <<>> /\ ~UMap_is_empty(old)) => Some(ids[1] - 1) = UMap_max(old)
  /\ UMap_len(new) = UMap_len(old) + Len(ids)
  /\ ids # <<>> => UMap_max(new) = Some(ids[Len(ids)])
  /\ \A id \in PushIds :
       (\A i \in 1..Len(ids) : ids[i] # id) =>
         IF id \in Held(old) THEN Gets(new, id, UMap_get(old, id)) ELSE id \notin Held(new)

\* C30: push(v) returns a key that held no value and is greater than every
\* key present; afterwards get(k) = v, len() has grown by one, max() is
\* Some(k) and every other entry is as it was; on a non-empty map k is the
\* former max() + 1; push_all returns one such key per value, consecutive
\* and in input order.
C30_PushReturnsFreshKey ==
  [][/\ \A value \in Values :
          (last'.op = "push" /\ MapPushCall(value)) =>
            ~panicked' /\ Pushed(map, map', ret', <<value>>)
     /\ \A slice \in PushSlices :
          (last'.op = "push_all" /\ MapPushAllCall(slice)) =>
            ~panicked' /\ Pushed(map, map', ret', slice)]_vars

\* ------------------------------------------------------------ C31
\* `new` is `old` with `value` under `id`: one entry more if `id` held none
Replaced(old, new, id, value) ==
  /\ Gets(new, id, Some(value))
  /\ UMap_len(new) = (IF id \in Held(old) THEN UMap_len(old) ELSE UMap_len(old) + 1)
  /\ \A other \in PushIds \ {id} :
       IF other \in Held(old) THEN Gets(new, other, UMap_get(old, other))
       ELSE other \notin Held(new)

\* C31: on every map, a fresh empty one included, replace(id, v) returns
\* and afterwards get(id) = v, len() is as before if the map held a value
\* under id and one greater otherwise, and the value under every other key
\* is as before.
C31_Replace ==
  [][\A id \in MapIds, value \in Values :
       (last'.op = "replace" /\ MapReplace(id, value)) =>
         /\ ~UMap_get_undefined(map, id)
         /\ ~panicked'
         /\ Replaced(map, map', id, value)]_vars

\* ------------------------------------------------------------ C32
\* the keys under which get returns a value, among the keys of joined maps
JoinIds == 0..(MaxJoinKey + 1)

HeldIn(m) == { id \in JoinIds : ~UMap_get_undefined(m, id) /\ UMap_get(m, id) # None }

\* the two maps hold equal values under every key they share
Agree(a, b) == \A id \in HeldIn(a) \cap HeldIn(b) : UMap_get(a, id) = UMap_get(b, id)

\* `out` holds exactly the entries of `a` and `b`
Joined(a, b, out) ==
  /\ HeldIn(out) = HeldIn(a) \cup HeldIn(b)
  /\ \A id \in HeldIn(a) : Gets(out, id, UMap_get(a, id))
  /\ \A id \in HeldIn(b) : Gets(out, id, UMap_get(b, id))
  /\ UMap_len(out) = Cardinality(HeldIn(a) \cup HeldIn(b))
  /\ UMap_min(out) = (IF HeldIn(a) \cup HeldIn(b) = {} THEN None
                      ELSE Some(SetMin(HeldIn(a) \cup HeldIn(b))))
  /\ UMap_max(out) = (IF HeldIn(a) \cup HeldIn(b) = {} THEN None
                      ELSE Some(SetMax(HeldIn(a) \cup HeldIn(b))))

\* C32: for two maps that hold equal values under every key they share,
\* join returns a map that holds a value under a key iff one of them does,
\* the value they hold; its len() is the number of distinct keys, its
\* min() / max() the smallest / largest of them, and the map joined is left
\* as it was.
C32_Join ==
  [][\A other \in JoinOperands \cup {map} :
       (last'.op = "join" /\ Join(other) /\ Agree(map, other)) =>
         /\ ~panicked'
         /\ map' = map
         /\ Joined(map, other, res')]_vars

\* ------------------------------------------------------------ C33
\* C33: with debug assertions on, join panics for every pair of non-empty
\* maps that hold two different values under a shared key, wherever the key
\* sits in the ascending order of the keys of each map.
C33_JoinPanicsOnConflict ==
  [][\A other \in JoinOperands :
       ( /\ last'.op = "join" /\ Join(other)
         /\ ~UMap_is_empty(map) /\ ~UMap_is_empty(other)
         /\ ~Agree(map, other) ) => panicked']_vars

\* ------------------------------------------------------------ C34
\* `out` holds exactly the entries of `m` under the keys `keys`
Projected(m, keys, out) ==
  LET K == keys \cap HeldIn(m) IN
    /\ HeldIn(out) = K
    /\ \A id \in K : Gets(out, id, UMap_get(m, id))
    /\ UMap_len(out) = Cardinality(K)
    /\ UMap_min(out) = (IF K = {} THEN None ELSE Some(SetMin(K)))
    /\ UMap_max(out) = (IF K = {} THEN None ELSE Some(SetMax(K)))

\* C34: for every map and every set, a subset of the map's keys or not,
\* submap returns a map that holds a value under a key iff the key is in
\* the set and the map holds a value under it, the map's value; its len()
\* is the number of such keys and its min() / max() the smallest / largest
\* of them (None when there is none).
C34_Submap ==
  [][\A subset \in SliceSets :
       (last'.op = "submap" /\ Submap(subset)) =>
         /\ ~UMap_submap_undefined(map, subset)
         /\ ~panicked'
         /\ Projected(map, Contained(subset), res')]_vars

\* ------------------------------------------------------------ C35
\* the keys under which the map holds a value the predicate accepts
Satisfying(m, accepted) == { id \in HeldIn(m) : UMap_get(m, id)[1] \in accepted }

\* C35: query(p) returns a set that contains exactly the keys under which
\* the map holds a value satisfying p, the empty set when the map is empty
\* or no value satisfies p, and leaves the map as it was.
C35_Query ==
  [][\A accepted \in Predicates :
       (last'.op = "query" /\ Query(accepted)) =>
         /\ ~UMap_query_undefined(map)
         /\ ~panicked'
         /\ map' = map
         /\ Contained(res') = Satisfying(map, accepted)
         /\ Satisfying(map, accepted) = {} => USet_is_empty(res')]_vars

\* ------------------------------------------------------------ C36
\* C36: every non-empty result of union, difference, common_part and
\* xor_set is right-sized: its offset is its min and its capacity() is
\* max - min + 1, whatever the operands.
C36_ResultsRightSized ==
  ( /\ kind = "USet" /\ ~panicked
    /\ last.op \in {"union", "difference", "common_part", "xor_set"}
    /\ ~USet_is_empty(res) ) =>
    /\ res.offset = res.min
    /\ USet_capacity(res) = res.max - res.min + 1

\* ------------------------------------------------------------ C37
\* what push(id) of a key not contained has to leave, arm by arm
PushedInto(old, new, id) ==
  /\ (~USet_is_empty(old) /\ USet_capacity(old) > 0 /\ id < old.offset) =>
       /\ new.offset = id /\ new.min = id
       /\ USet_capacity(new) = new.max - id + 1
       /\ new.max = old.max
  /\ (~USet_is_empty(old) /\ USet_capacity(old) > 0 /\ id >= old.offset + USet_capacity(old)) =>
       /\ USet_capacity(new) = id + 1 - old.offset
       /\ new.max = id
       /\ new.offset = old.offset
  /\ (~USet_is_empty(old) /\ old.offset <= id /\ id < old.offset + USet_capacity(old)) =>
       /\ USet_capacity(new) = USet_capacity(old)
       /\ new.offset = old.offset
       /\ (old.min <= id /\ id <= old.max) => (new.min = old.min /\ new.max = old.max)
       /\ new.min \in {old.min, id} /\ new.max \in {old.max, id}
  /\ USet_capacity(old) = 0 =>
       /\ USet_capacity(new) = INITIAL_WORKING_CAPACITY
       /\ new.offset = id /\ new.min = id /\ new.max = id

C38_PushAllWidenKeeps ==
  [][\A slice \in Slices :
       (last' = Called("push_all", "widen") /\ PushAll(slice)) =>
         /\ ~panicked'
         /\ Contained(set) \subseteq Contained(set')
         /\ SliceKeys(slice) \subseteq Contained(set')
         /\ USet_len(set') = Cardinality(Contained(set'))]_vars

\* ------------------------------------------------------------ C39
\* the map's len, min and max describe its entries
MapWellFormed(m) ==
  /\ UMap_len(m) = Cardinality(MapMembers(m))
  /\ IF MapMembers(m) = {}
     THEN UMap_min(m) = None /\ UMap_max(m) = None
     ELSE /\ UMap_min(m) = Some(SetMin(MapMembers(m)))
          /\ UMap_max(m) = Some(SetMax(MapMembers(m)))
  /\ ~UMap_is_empty(m) =>
       m.offset <= m.min /\ m.min <= m.max /\ m.max < m.offset + UMap_capacity(m)

OthersKept(old, new, k) == Contained(new) \ {k} = Contained(old) \ {k}

\* C40: push(k) and remove(k) on any set a program can build return and
\* leave every key j # k contained exactly when it was, also when push
\* moves the buffer (k below offset, or at or above offset + capacity) and
\* when remove looks for a new minimum or maximum; push(k) of a key the set
\* contains leaves len, min, max, offset, capacity and the members as they
\* were.
C40_PushRemoveFrame ==
  [][\A k \in Keys :
       /\ (last'.op = "push" /\ Push(k)) =>
            /\ ~panicked' /\ OthersKept(set, set', k)
            /\ k \in Contained(set) => set' = set
       /\ (last'.op = "remove" /\ Remove(k)) =>
            ~panicked' /\ OthersKept(set, set', k)]_vars

====
